---- MODULE Spec2Model ----
(***************************************************************************)
(* A model of the roam-export tool of org-tools: the identifier pass and   *)
(* the lookup tables of main.rs, and the MarkdownExport traverser of       *)
(* markdown.rs.  Strings are sequences of one-character strings, so that   *)
(* slugs, trimming, splitting and the buffers are computed as the code     *)
(* computes them.                                                          *)
(***************************************************************************)
EXTENDS Integers, Sequences, FiniteSets, TLC

\* ------------------------------------------------------------------ bounds
\* Events of one document traversal (Spec).
MaxEvents == 4
\* Deepest headline level of a generated document.
MaxLevel == 3
\* Headlines of the traversed document (the first ones) that may carry an :ID:.
MaxIdentified == 1
\* Runs of the export over the same corpus and output root (SpecMain).
MaxRuns == 2
\* Block-level constructs after the opening of a rendered document (SpecRender).
MaxBlocks == 2

\* the events a calendar holds before a synchronisation
MaxRemote == 2

\* ------------------------------------------------------------ string helpers
Last(s) == s[Len(s)]

Front(s) == SubSeq(s, 1, Len(s) - 1)

IsPrefix(p, s) == Len(p) <= Len(s) /\ SubSeq(s, 1, Len(p)) = p

\* s contains p as a contiguous run
Contains(s, p) == \E i \in 0..(Len(s) - Len(p)) : SubSeq(s, i + 1, i + Len(p)) = p

IsWhitespace(c) == c \in {" ", "\n", "\t"}

RECURSIVE TrimStart(_)
TrimStart(s) == IF s # <<>> /\ IsWhitespace(Head(s)) THEN TrimStart(Tail(s)) ELSE s

RECURSIVE TrimEnd(_)
TrimEnd(s) == IF s # <<>> /\ IsWhitespace(Last(s)) THEN TrimEnd(Front(s)) ELSE s

\* str::trim
Trim(s) == TrimEnd(TrimStart(s))

\* str::trim_start_matches(pat): strips every leading repetition of pat
RECURSIVE TrimStartMatches(_, _)
TrimStartMatches(s, pat) ==
    IF pat # <<>> /\ IsPrefix(pat, s)
    THEN TrimStartMatches(SubSeq(s, Len(pat) + 1, Len(s)), pat)
    ELSE s

\* str::split(c): the pieces between the occurrences of c, empty pieces kept
RECURSIVE SplitAcc(_, _, _, _)
SplitAcc(s, c, cur, acc) ==
    IF s = <<>> THEN Append(acc, cur)
    ELSE IF Head(s) = c THEN SplitAcc(Tail(s), c, <<>>, Append(acc, cur))
    ELSE SplitAcc(Tail(s), c, Append(cur, Head(s)), acc)

Split(s, c) == SplitAcc(s, c, <<>>, <<>>)

\* "x".repeat(n)
RECURSIVE Repeat(_, _)
Repeat(c, n) == IF n <= 0 THEN <<>> ELSE <<c>> \o Repeat(c, n - 1)

Min(a, b) == IF a <= b THEN a ELSE b

\* usize::saturating_sub
SaturatingSub(a, b) == IF a >= b THEN a - b ELSE 0

ToLower(c) ==
    CASE c = "A" -> "a" [] c = "B" -> "b" [] c = "N" -> "n" [] c = "O" -> "o"
      [] c = "S" -> "s" [] c = "T" -> "t" [] c = "U" -> "u" [] OTHER -> c

IsAlnum(c) ==
    c \in {"a", "b", "e", "h", "n", "o", "r", "s", "t", "u", "w", "x",
           "0", "1", "2", "3", "4", "5", "6", "7", "8", "9"}

\* slug::slugify: lower-case; every run of other characters becomes one "-";
\* no "-" at either end
RECURSIVE SlugifyAcc(_, _)
SlugifyAcc(s, acc) ==
    IF s = <<>> THEN acc
    ELSE LET c == ToLower(Head(s)) IN
         IF IsAlnum(c) THEN SlugifyAcc(Tail(s), Append(acc, c))
         ELSE IF acc # <<>> /\ Last(acc) # "-" THEN SlugifyAcc(Tail(s), Append(acc, "-"))
         ELSE SlugifyAcc(Tail(s), acc)

slugify(s) ==
    LET r == SlugifyAcc(s, <<>>) IN
    IF r # <<>> /\ Last(r) = "-" THEN Front(r) ELSE r

Digit(n) ==
    CASE n = 0 -> "0" [] n = 1 -> "1" [] n = 2 -> "2" [] n = 3 -> "3" [] n = 4 -> "4"
      [] n = 5 -> "5" [] n = 6 -> "6" [] n = 7 -> "7" [] n = 8 -> "8" [] OTHER -> "9"

\* ------------------------------------------------------------------ literals
\* main.rs: pub const EXPORT_TAG
EXPORT_TAG == <<"e", "x", "p", "o", "r", "t">>

FILETAGS == <<"f", "i", "l", "e", "t", "a", "g", "s">>

ID_PROP == <<":", "I", "D", ":">>

ID_LINK == <<"i", "d", ":">>

FILE_LINK == <<"f", "i", "l", "e", ":">>

DELIM == <<"-", "-", "-", "\n">>

NL == <<"\n">>

TITLE_KEY == <<"t", "i", "t", "l", "e", ":", " ">>

DOT_ORG == <<".", "o", "r", "g">>

NOID_MSG(t) == <<"e", "x", "p", "o", "r", "t", "e", "d", " ", "h", "e", "a", "d", "l", "i", "n", "e", " ">>
               \o t \o <<" ", "w", "i", "t", "h", " ", "n", "o", " ", "i", "d">>

NOLINK_MSG(u) == <<"l", "i", "n", "k", " ", "t", "o", " ", "n", "o", "n", "-", "e", "x", "i", "s", "t", "e", "n", "t", " ",
                   "u", "u", "i", "d", " ">> \o u

\* ------------------------------------------------------------------ uuid
\* The identifiers of the model: uuid::Uuid values, written as Display writes them.
Uuids == {<<"u", "1">>, <<"u", "2">>, <<"u", "3">>}

Invalid == <<"?">>

\* Uuid::from_str: case-insensitive; Invalid stands for the Err that expect() panics on
ParseUuid(s) ==
    LET l == [i \in 1..Len(s) |-> ToLower(s[i])] IN
    IF l \in Uuids THEN l ELSE Invalid

\* ------------------------------------------------------------ orgize values
\* orgize::ast::Headline, as far as the code reads it: level(), tags(),
\* title_raw(), properties() (the raw node properties) and text_range().
NoHeadline == [level |-> 0, tags |-> <<>>, title |-> <<>>, properties |-> <<>>, range |-> 0]

HasExportTag(h) == \E i \in DOMAIN h.tags : h.tags[i] = EXPORT_TAG

\* HashMap::get
Get(m, k) == IF k \in DOMAIN m THEN <<m[k]>> ELSE <<>>

\* ------------------------------------------------------------------ tracing
\* one warn!() line: which warning, and the text and file it names
Warning(kind, what, file) == [kind |-> kind, what |-> what, file |-> file]

\* ------------------------------------------------------------ MarkdownExport
CtxFile == [kind |-> "File", h |-> NoHeadline]

CtxHeadline(h) == [kind |-> "Headline", h |-> h]

\* MarkdownExport::new; log is what the traversal has logged with warn!(), and
\* panicked stands for the expect() of line 325 having failed
new(this_file, node_map, headline_map) ==
    [this_file |-> this_file,
     node_map |-> node_map,
     headline_map |-> headline_map,
     file_front_matter |-> <<>>,
     entered_headline |-> FALSE,
     output_stack |-> <<>>,
     finished_outputs |-> <<>>,
     inside_blockquote |-> FALSE,
     log |-> <<>>,
     panicked |-> FALSE]

\* finish, lines 64-69: pop every open context onto finished_outputs
RECURSIVE DrainStack(_, _)
DrainStack(stack, fin) ==
    IF stack = <<>> THEN fin
    ELSE DrainStack(Front(stack), Append(fin, Last(stack)))

\* finish, lines 74-78: the file preamble (format!("{k}: {v}") has no newline)
RECURSIVE FrontMatterLines(_)
FrontMatterLines(fm) ==
    IF fm = <<>> THEN <<>>
    ELSE fm[1][1] \o <<":", " ">> \o fm[1][2] \o FrontMatterLines(Tail(fm))

FilePreamble(fm) == DELIM \o FrontMatterLines(fm) \o DELIM \o NL

\* MarkdownExport::finish: the returned finished_outputs
finish(me) ==
    LET fin == DrainStack(me.output_stack, me.finished_outputs) IN
    IF fin # <<>> /\ Last(fin)[1].kind = "File"
    THEN [fin EXCEPT ![Len(fin)] = <<@[1], FilePreamble(me.file_front_matter) \o @[2]>>]
    ELSE fin

\* for tag in all_tags.trim().split(':') { if tag == EXPORT_TAG { push; break } }
FiletagsHasExport(value) ==
    LET tags == Split(Trim(value), ":") IN
    \E i \in DOMAIN tags : tags[i] = EXPORT_TAG

\* Unconditional push of a File context (lines 97-99)
PushFile(stack) == Append(stack, <<CtxFile, <<>>>>)

\* event, Enter(Keyword): k is [key, value] for the raw line "#+key:value"
EnterKeyword(me, k) ==
    IF IsPrefix(FILETAGS, k.key)
    THEN IF FiletagsHasExport(k.value)
         THEN [me EXCEPT !.output_stack = PushFile(@)]
         ELSE me
    ELSE [me EXCEPT !.file_front_matter = Append(@, <<k.key, Trim(k.value)>>)]

\* one raw node property ":K: v" split at the first colon after the leading colons
PropKV(raw) ==
    LET kv == TrimStartMatches(raw, <<":">>)
        parts == Split(kv, ":")
        k == parts[1]
        v == SubSeq(kv, Len(k) + 2, Len(kv))
    IN <<k, Trim(v)>>

RECURSIVE PropsFrontMatter(_)
PropsFrontMatter(ps) ==
    IF ps = <<>> THEN <<>> ELSE <<PropKV(ps[1])>> \o PropsFrontMatter(Tail(ps))

\* event, Enter(PropertyDrawer): ps is the sequence of raw node properties
EnterPropertyDrawer(me, ps) ==
    IF me.entered_headline THEN me
    ELSE [me EXCEPT !.file_front_matter = @ \o PropsFrontMatter(ps)]

\* the pop loop without the File arm: a headline closes the File context too
RECURSIVE PopLoopThroughFile(_, _, _)
PopLoopThroughFile(stack, fin, h) ==
    IF stack = <<>> THEN <<stack, fin>>
    ELSE LET top == Last(stack) IN
         IF top[1].kind = "File" \/ h.level <= top[1].h.level
         THEN PopLoopThroughFile(Front(stack), Append(fin, top), h)
         ELSE <<stack, fin>>

\* the pop loop with < for <=: a sibling of the open section does not close it
RECURSIVE PopLoopStrict(_, _, _)
PopLoopStrict(stack, fin, h) ==
    IF stack = <<>> THEN <<stack, fin>>
    ELSE LET top == Last(stack) IN
         IF top[1].kind = "File" THEN <<stack, fin>>
         ELSE IF h.level < top[1].h.level
              THEN PopLoopStrict(Front(stack), Append(fin, top), h)
              ELSE <<stack, fin>>

\* event, lines 140-159: <<stack, finished>> after the pop loop for headline h
RECURSIVE PopLoop(_, _, _)
PopLoop(stack, fin, h) ==
    IF stack = <<>> THEN <<stack, fin>>
    ELSE LET top == Last(stack) IN
         IF top[1].kind = "File" THEN <<stack, fin>>
         ELSE IF h.level <= top[1].h.level
              THEN PopLoop(Front(stack), Append(fin, top), h)
              ELSE <<stack, fin>>

\* lines 181-189: the "k: v\n" lines of the headline's own properties
RECURSIVE PropsLines(_)
PropsLines(ps) ==
    IF ps = <<>> THEN <<>>
    ELSE LET kv == PropKV(ps[1]) IN kv[1] \o <<":", " ">> \o kv[2] \o NL \o PropsLines(Tail(ps))

\* lines 174-191: the preamble seeding a Section context
SectionPreamble(h) == DELIM \o TITLE_KEY \o h.title \o NL \o PropsLines(h.properties) \o DELIM \o NL

\* lines 164-172: what is appended to the parent's buffer
EmbedText(me, h) ==
    LET f == Get(me.headline_map, <<me.this_file, h.range>>) IN
    IF f # <<>> THEN <<"!", "[", "[">> \o f[1] \o <<"]", "]", "\n", "\n">>
    ELSE NOID_MSG(h.title)

\* output.ends_with(['\n', '\r'])
EndsWithNewline(out) == out # <<>> /\ Last(out) \in {"\n", "\r"}

EnsureNewline(out) == IF out # <<>> /\ ~EndsWithNewline(out) THEN out \o NL ELSE out

\* appends to the buffer on top of the stack, if any (output_stack.last_mut())
AppendTop(stack, s) ==
    IF stack = <<>> THEN stack
    ELSE [stack EXCEPT ![Len(stack)] = <<@[1], @[2] \o s>>]

\* event, Text: lines 364-375
BlockquoteText(text) ==
    LET lines == Split(text, "\n")
        F[i \in 0..Len(lines)] ==
            IF i = 0 THEN <<>>
            ELSE F[i - 1] \o (IF i # 1 THEN <<"\n", ">", " ", " ">> ELSE <<>>) \o lines[i]
    IN F[Len(lines)]

\* the Text handler writing into every open context instead of the top one
TextEverywhere(me, text) ==
    [me EXCEPT !.output_stack =
        [i \in DOMAIN @ |->
            <<@[i][1], @[i][2] \o (IF me.inside_blockquote THEN BlockquoteText(text) ELSE text)>>]]

Text(me, text) ==
    [me EXCEPT !.output_stack =
        AppendTop(@, IF me.inside_blockquote THEN BlockquoteText(text) ELSE text)]

\* the rendered level without the clamp to six marks
HeadingLevelUnclamped(ex_ctx, headline) ==
    LET offset == IF ex_ctx.kind = "File" THEN 0 ELSE ex_ctx.h.level IN
    SaturatingSub(headline.level, offset)

\* lines 220-225: the rendered level of a headline inside context ex_ctx
HeadingLevel(ex_ctx, headline) ==
    LET offset == IF ex_ctx.kind = "File" THEN 0 ELSE ex_ctx.h.level IN
    Min(SaturatingSub(headline.level, offset), 6)

\* lines 212-230: a headline rendered into the top context
RenderHeadline(me, headline) ==
    IF me.output_stack = <<>> THEN me
    ELSE LET top == Last(me.output_stack)
             out == EnsureNewline(top[2]) \o Repeat("#", HeadingLevel(top[1], headline)) \o <<" ">>
             m1 == [me EXCEPT !.output_stack[Len(me.output_stack)] = <<top[1], out>>]
         IN Text(m1, headline.title)

\* Enter(Headline) with the embed written before the pop loop: it lands in the
\* buffer of the context that was on top, which the headline may then close
EnterHeadlineEmbedFirst(me, h) ==
    LET written == IF HasExportTag(h) THEN AppendTop(me.output_stack, EmbedText(me, h))
                   ELSE me.output_stack
        popped == PopLoop(written, me.finished_outputs, h)
        m1 == [me EXCEPT !.entered_headline = TRUE,
                         !.output_stack = popped[1],
                         !.finished_outputs = popped[2]]
    IN IF HasExportTag(h)
       THEN [m1 EXCEPT !.output_stack = Append(@, <<CtxHeadline(h), SectionPreamble(h)>>),
                       !.log = IF me.output_stack # <<>> /\ Get(me.headline_map, <<me.this_file, h.range>>) = <<>>
                               THEN Append(@, Warning("exported headline with no id", h.title, me.this_file))
                               ELSE @]
       ELSE RenderHeadline(m1, h)

\* Enter(Headline) without the return of line 196: the export-tagged headline is
\* also rendered, into the context it has just opened
EnterHeadlineAnchorHeading(me, h) ==
    LET popped == PopLoop(me.output_stack, me.finished_outputs, h)
        m1 == [me EXCEPT !.entered_headline = TRUE,
                         !.output_stack = popped[1],
                         !.finished_outputs = popped[2]]
    IN IF HasExportTag(h)
       THEN RenderHeadline(
              [m1 EXCEPT !.output_stack =
                  Append(AppendTop(@, EmbedText(me, h)), <<CtxHeadline(h), SectionPreamble(h)>>),
                         !.log = IF popped[1] # <<>> /\ Get(me.headline_map, <<me.this_file, h.range>>) = <<>>
                                 THEN Append(@, Warning("exported headline with no id", h.title, me.this_file))
                                 ELSE @], h)
       ELSE RenderHeadline(m1, h)

\* event, Enter(Headline)
EnterHeadline(me, h) ==
    LET popped == PopLoop(me.output_stack, me.finished_outputs, h)
        m1 == [me EXCEPT !.entered_headline = TRUE,
                         !.output_stack = popped[1],
                         !.finished_outputs = popped[2]]
    IN IF HasExportTag(h)
       THEN [m1 EXCEPT !.output_stack =
                Append(AppendTop(@, EmbedText(me, h)), <<CtxHeadline(h), SectionPreamble(h)>>),
                       !.log = IF popped[1] # <<>> /\ Get(me.headline_map, <<me.this_file, h.range>>) = <<>>
                               THEN Append(@, Warning("exported headline with no id", h.title, me.this_file))
                               ELSE @]
       ELSE RenderHeadline(m1, h)

\* the identifier-link handler with expect() on the table lookup: a link to an
\* identifier that is not in node_map panics
EnterLinkStrict(me, link) ==
    IF me.output_stack = <<>> THEN <<me, FALSE>>
    ELSE IF IsPrefix(ID_LINK, link.path)
    THEN LET uuid == ParseUuid(TrimStartMatches(link.path, ID_LINK))
             f == Get(me.node_map, uuid)
         IN IF uuid = Invalid \/ f = <<>> THEN <<[me EXCEPT !.panicked = TRUE], TRUE>>
            ELSE IF link.description # <<>>
                 THEN <<[me EXCEPT !.output_stack =
                            AppendTop(@, <<"[", "[">> \o f[1] \o <<"]", "[">> \o link.description \o <<"]", "]">>)], TRUE>>
                 ELSE <<[me EXCEPT !.output_stack = AppendTop(@, <<"[", "[">> \o f[1] \o <<"]", "]">>)], TRUE>>
    ELSE LET path == TrimStartMatches(link.path, FILE_LINK) IN
         IF link.is_image
         THEN <<[me EXCEPT !.output_stack = AppendTop(@, <<"!", "[", "]", "(">> \o path \o <<")">>)], TRUE>>
         ELSE IF link.description = <<>>
         THEN <<[me EXCEPT !.output_stack = AppendTop(@, <<"[">> \o path \o <<"]", "(">> \o path \o <<")">>)], TRUE>>
         ELSE <<[me EXCEPT !.output_stack = AppendTop(@, <<"[">>)], FALSE>>

\* event, Enter(Link): lines 320-359.  link is [path, description, is_image];
\* the result is <<me, skip>>, skip telling whether ctx.skip() was called.
\* On an identifier that is no uuid the expect("invalid id") of line 325 panics.
EnterLink(me, link) ==
    IF me.output_stack = <<>> THEN <<me, FALSE>>
    ELSE IF IsPrefix(ID_LINK, link.path)
    THEN LET uuid == ParseUuid(TrimStartMatches(link.path, ID_LINK))
             f == Get(me.node_map, uuid)
         IN IF uuid = Invalid THEN <<[me EXCEPT !.panicked = TRUE], TRUE>>
            ELSE IF f # <<>>
            THEN IF link.description # <<>>
                 THEN <<[me EXCEPT !.output_stack =
                            AppendTop(@, <<"[", "[">> \o f[1] \o <<"]", "[">> \o link.description \o <<"]", "]">>)], TRUE>>
                 ELSE <<[me EXCEPT !.output_stack = AppendTop(@, <<"[", "[">> \o f[1] \o <<"]", "]">>)], TRUE>>
            ELSE <<[me EXCEPT !.output_stack = AppendTop(@, NOLINK_MSG(uuid)),
                              !.log = Append(@, Warning("link to non-existent uuid", uuid, me.this_file))],
                   TRUE>>
    ELSE LET path == TrimStartMatches(link.path, FILE_LINK) IN
         IF link.is_image
         THEN <<[me EXCEPT !.output_stack = AppendTop(@, <<"!", "[", "]", "(">> \o path \o <<")">>)], TRUE>>
         ELSE IF link.description = <<>>
         THEN <<[me EXCEPT !.output_stack = AppendTop(@, <<"[">> \o path \o <<"]", "(">> \o path \o <<")">>)], TRUE>>
         ELSE <<[me EXCEPT !.output_stack = AppendTop(@, <<"[">>)], FALSE>>

\* event, Leave(Link): lines 360-362
LeaveLink(me, link) ==
    [me EXCEPT !.output_stack = AppendTop(@, <<"]", "(">> \o link.path \o <<")">>)]

\* A whole link element as the traverser delivers it: Enter, then (unless
\* skipped) the description's text, then Leave
Link(me, link) ==
    LET e == EnterLink(me, link) IN
    IF e[2] \/ me.output_stack = <<>> THEN e[1]
    ELSE LeaveLink(Text(e[1], link.description), link)

SKIPPED_TABLE == <<"s", "k", "i", "p", "p", "e", "d", " ", "t", "a", "b", "l", "e", "\n">>

\* the raw text of one table row: "|cell|cell|"
RECURSIVE TableRowRaw(_)
TableRowRaw(row) ==
    IF row = <<>> THEN <<"|">> ELSE <<"|">> \o row[1] \o TableRowRaw(Tail(row))

\* the table handler without ctx.skip(): the rows and cells are traversed
EnterOrgTableNoSkip(me, table) ==
    IF me.output_stack = <<>> THEN <<me, FALSE>>
    ELSE <<[me EXCEPT !.output_stack = AppendTop(@, SKIPPED_TABLE),
                      !.log = Append(@, Warning("skipping org table", TableRowRaw(table[1]), me.this_file))],
           FALSE>>

\* event, Enter(OrgTable): lines 304-313.  table is the sequence of its rows, a
\* row the sequence of its cells' texts; the result is <<me, skip>>
EnterOrgTable(me, table) ==
    IF me.output_stack = <<>> THEN <<me, FALSE>>
    ELSE <<[me EXCEPT !.output_stack = AppendTop(@, SKIPPED_TABLE),
                      !.log = Append(@, Warning("skipping org table", TableRowRaw(table[1]), me.this_file))],
           TRUE>>

\* the cells of the rows, as Text events (rows and cells themselves render
\* nothing: lines 314-318)
RECURSIVE TableCells(_, _)
TableCells(me, cells) ==
    IF cells = <<>> THEN me ELSE TableCells(Text(me, cells[1]), Tail(cells))

RECURSIVE TableRows(_, _)
TableRows(me, rows) ==
    IF rows = <<>> THEN me ELSE TableRows(TableCells(me, rows[1]), Tail(rows))

\* A whole table as the traverser delivers it: Enter, then (unless skipped) its
\* rows and cells
OrgTable(me, table) ==
    LET e == EnterOrgTable(me, table) IN
    IF e[2] THEN e[1] ELSE TableRows(e[1], table)

\* if !output.is_empty() && !output.ends_with(['\n', '\r']) { *output += "\n" },
\* on the buffer on top of the stack
EnsureNewlineTop(stack) ==
    IF stack = <<>> THEN stack
    ELSE [stack EXCEPT ![Len(stack)] = <<@[1], EnsureNewline(@[2])>>]

\* event, Leave(Paragraph): line 234 (Enter(Paragraph), line 233, does nothing)
LeaveParagraph(me) == [me EXCEPT !.output_stack = AppendTop(@, NL)]

\* event, Enter(Section): lines 236-240
EnterSection(me) == [me EXCEPT !.output_stack = EnsureNewlineTop(@)]

\* the character U+0060 (grave accent), which a TLA+ string cannot hold
GRAVE == "U+0060"

FENCE == <<GRAVE, GRAVE, GRAVE>>

\* event, Enter(SourceBlock): lines 260-268; block.language is <<>> for None
EnterSourceBlock(me, block) ==
    [me EXCEPT !.output_stack = AppendTop(EnsureNewlineTop(@), FENCE \o block.language)]

\* event, Leave(SourceBlock): line 269
LeaveSourceBlock(me) == [me EXCEPT !.output_stack = AppendTop(@, FENCE \o NL)]

QUOTE_PREFIX == <<">", " ">>

\* event, Enter(QuoteBlock): lines 271-277, inside the if-let of line 207
EnterQuoteBlock(me) ==
    IF me.output_stack = <<>> THEN me
    ELSE [me EXCEPT !.inside_blockquote = TRUE,
                    !.output_stack = AppendTop(EnsureNewlineTop(@), QUOTE_PREFIX)]

\* event, Leave(QuoteBlock): line 278
LeaveQuoteBlock(me) ==
    IF me.output_stack = <<>> THEN me ELSE [me EXCEPT !.inside_blockquote = FALSE]

COMMENT_OPEN == <<"<", "!", "-", "-">>

COMMENT_CLOSE == <<"-", "-", ">">>

\* event, Enter(CommentBlock): line 280
EnterCommentBlock(me) == [me EXCEPT !.output_stack = AppendTop(@, COMMENT_OPEN)]

\* event, Leave(CommentBlock): line 281
LeaveCommentBlock(me) == [me EXCEPT !.output_stack = AppendTop(@, COMMENT_CLOSE)]

\* event, Enter(ListItem): lines 295-301
EnterListItem(me, list_item) ==
    [me EXCEPT !.output_stack =
        AppendTop(EnsureNewlineTop(@), Repeat(" ", list_item.indent) \o list_item.bullet)]

RULE == <<"\n", "-", "-", "-", "-", "-", "\n">>

\* event, Rule: line 381
Rule(me) == [me EXCEPT !.output_stack = AppendTop(@, RULE)]

\* event, Enter(container) for the containers that are delivered event by event
Enter(me, c) ==
    IF c.kind = "Section" THEN EnterSection(me)
    ELSE IF c.kind = "SourceBlock" THEN EnterSourceBlock(me, c)
    ELSE IF c.kind = "QuoteBlock" THEN EnterQuoteBlock(me)
    ELSE IF c.kind = "CommentBlock" THEN EnterCommentBlock(me)
    ELSE IF c.kind = "ListItem" THEN EnterListItem(me, c)
    ELSE me

\* event, Leave(container)
Leave(me, c) ==
    IF c.kind = "Paragraph" THEN LeaveParagraph(me)
    ELSE IF c.kind = "SourceBlock" THEN LeaveSourceBlock(me)
    ELSE IF c.kind = "QuoteBlock" THEN LeaveQuoteBlock(me)
    ELSE IF c.kind = "CommentBlock" THEN LeaveCommentBlock(me)
    ELSE me

\* ------------------------------------------------------------------ paths
\* index of the last c in s (0: none)
LastIndexOf(s, c) ==
    LET at == {i \in DOMAIN s : s[i] = c} IN
    IF at = {} THEN 0 ELSE CHOOSE i \in at : \A j \in at : j <= i

\* Path::file_name: the component after the last "/"
FileName(p) == SubSeq(p, LastIndexOf(p, "/") + 1, Len(p))

\* Path::file_stem: the file name up to its last ".", a leading "." not counting
FileStem(p) ==
    LET n == FileName(p)
        d == LastIndexOf(n, ".")
    IN IF d <= 1 THEN n ELSE SubSeq(n, 1, d - 1)

\* Path::join
Join(dir, name) == dir \o <<"/">> \o name

\* Path::with_extension: the extension of the file name replaced, or added
WithExtension(p, ext) ==
    LET n == FileName(p)
        dir == SubSeq(p, 1, Len(p) - Len(n))
    IN dir \o FileStem(p) \o <<".">> \o ext

ORG == <<"o", "r", "g">>

\* ------------------------------------------------------------- IdTraversal
\* main.rs lines 237-242, IdTraversal::default(); panicked stands for the
\* expect() of lines 257 and 271 having failed
IdTraversalDefault ==
    [file_uuid |-> <<>>, headline_uuids |-> <<>>, entered_headline |-> FALSE, panicked |-> FALSE]

\* the first raw property starting with ":ID:" (0: none)
FirstIdProp(ps) ==
    LET at == {i \in DOMAIN ps : IsPrefix(ID_PROP, ps[i])} IN
    IF at = {} THEN 0 ELSE CHOOSE i \in at : \A j \in at : i <= j

\* raw[4..].trim()
IdText(raw) == Trim(SubSeq(raw, 5, Len(raw)))

\* the drawer handler without the test of entered_headline (lines 248-250)
IdEnterPropertyDrawerAnywhere(t, ps) ==
    IF FirstIdProp(ps) = 0 THEN t
    ELSE LET u == ParseUuid(IdText(ps[FirstIdProp(ps)])) IN
         IF u = Invalid THEN [t EXCEPT !.panicked = TRUE]
         ELSE [t EXCEPT !.file_uuid = <<u>>]

\* IdTraversal::event, Enter(PropertyDrawer): lines 247-261
IdEnterPropertyDrawer(t, ps) ==
    IF t.entered_headline \/ FirstIdProp(ps) = 0 THEN t
    ELSE LET u == ParseUuid(IdText(ps[FirstIdProp(ps)])) IN
         IF u = Invalid THEN [t EXCEPT !.panicked = TRUE]
         ELSE [t EXCEPT !.file_uuid = <<u>>]

\* HashMap::insert: the value of an existing key is replaced
Insert(m, k, v) == (k :> v) @@ m

\* the headline handler passing over an identity property that is no uuid
IdEnterHeadlineLenient(t, h) ==
    LET t1 == [t EXCEPT !.entered_headline = TRUE] IN
    IF FirstIdProp(h.properties) = 0 THEN t1
    ELSE LET u == ParseUuid(IdText(h.properties[FirstIdProp(h.properties)])) IN
         IF u = Invalid THEN t1
         ELSE [t1 EXCEPT !.headline_uuids = Insert(@, u, h)]

\* IdTraversal::event, Enter(Headline): lines 262-281
IdEnterHeadline(t, h) ==
    LET t1 == [t EXCEPT !.entered_headline = TRUE] IN
    IF FirstIdProp(h.properties) = 0 THEN t1
    ELSE LET u == ParseUuid(IdText(h.properties[FirstIdProp(h.properties)])) IN
         IF u = Invalid THEN [t1 EXCEPT !.panicked = TRUE]
         ELSE [t1 EXCEPT !.headline_uuids = Insert(@, u, h)]

\* IdTraversal::event
IdEvent(t, ev) ==
    IF t.panicked THEN t
    ELSE IF ev.type = "PropertyDrawer" THEN IdEnterPropertyDrawer(t, ev.ps)
    ELSE IF ev.type = "Headline" THEN IdEnterHeadline(t, ev.h)
    ELSE t

\* org.traverse(&mut traversal), main.rs line 81
RECURSIVE IdTraverse(_, _)
IdTraverse(t, doc) ==
    IF doc = <<>> THEN t ELSE IdTraverse(IdEvent(t, Head(doc)), Tail(doc))

\* enum Node, main.rs lines 230-234
NodeFile(path) == [kind |-> "File", path |-> path, title |-> <<>>, range |-> 0]

NodeHeadline(path, title, range) ==
    [kind |-> "Headline", path |-> path, title |-> title, range |-> range]

\* main.rs lines 83-96: the (uuid, node) pairs of one document; order is a
\* sequence of the keys of headline_uuids, the order the HashMap is iterated in
DocNodes(path, t, order) ==
    (IF t.file_uuid # <<>> THEN <<<<t.file_uuid[1], NodeFile(path)>>>> ELSE <<>>)
    \o [i \in 1..Len(order) |->
            <<order[i], NodeHeadline(path, t.headline_uuids[order[i]].title,
                                     t.headline_uuids[order[i]].range)>>]

\* the sequences that list every element of S once
Orders(S) ==
    {o \in [1..Cardinality(S) -> S] : \A i, j \in 1..Cardinality(S) : i # j => o[i] # o[j]}

\* main.rs lines 106-111: the name a node gets in the filenames table
NodeFname(n) == IF n.kind = "File" THEN FileStem(n.path) ELSE slugify(n.title)

\* main.rs lines 102-115: collect() into a HashMap, a later pair replacing an
\* earlier one with the same uuid
RECURSIVE Filenames(_)
Filenames(ns) ==
    IF ns = <<>> THEN <<>>
    ELSE Insert(Filenames(Front(ns)), Last(ns)[1], NodeFname(Last(ns)[2]))

\* main.rs line 123: the name a headline gets in the headline_names table
HeadlineFname(title) == slugify(title) \o DOT_ORG

\* main.rs lines 117-126
RECURSIVE HeadlineNames(_)
HeadlineNames(ns) ==
    IF ns = <<>> THEN <<>>
    ELSE LET n == Last(ns)[2] IN
         IF n.kind = "Headline"
         THEN Insert(HeadlineNames(Front(ns)), <<n.path, n.range>>, HeadlineFname(n.title))
         ELSE HeadlineNames(Front(ns))

\* main.rs lines 128-138
RECURSIVE FileNodeNames(_)
FileNodeNames(ns) ==
    IF ns = <<>> THEN <<>>
    ELSE LET n == Last(ns)[2] IN
         IF n.kind = "File"
         THEN Insert(FileNodeNames(Front(ns)), n.path, FileStem(n.path))
         ELSE FileNodeNames(Front(ns))

\* MarkdownExport::event, by kind of event; after a panic no event is handled
event(me, ev) ==
    IF me.panicked THEN me
    ELSE IF ev.type = "Keyword" THEN EnterKeyword(me, ev.k)
    ELSE IF ev.type = "PropertyDrawer" THEN EnterPropertyDrawer(me, ev.ps)
    ELSE IF ev.type = "Headline" THEN EnterHeadline(me, ev.h)
    ELSE IF ev.type = "Text" THEN Text(me, ev.text)
    ELSE IF ev.type = "Link" THEN Link(me, ev.link)
    ELSE IF ev.type = "Table" THEN OrgTable(me, ev.table)
    ELSE IF ev.type = "Enter" THEN Enter(me, ev.c)
    ELSE IF ev.type = "Leave" THEN Leave(me, ev.c)
    ELSE IF ev.type = "Rule" THEN Rule(me)
    ELSE me

\* org.traverse(&mut traversal), main.rs line 174
RECURSIVE Traverse(_, _)
Traverse(me, doc) ==
    IF doc = <<>> THEN me ELSE Traverse(event(me, Head(doc)), Tail(doc))

\* main.rs lines 177-208: the path a finished record is written to (<<>>: none)
OutPath(output, path, ex_ctx, hnames, fnames) ==
    LET f == IF ex_ctx.kind = "File" THEN Get(fnames, path)
             ELSE Get(hnames, <<path, ex_ctx.h.range>>)
    IN IF f # <<>> THEN <<WithExtension(Join(output, f[1]), ORG)>> ELSE <<>>

\* ------------------------------------------------------------------ state
VARIABLES
    \* MarkdownExport (markdown.rs lines 32-42)
    this_file, node_map, headline_map, file_front_matter, entered_headline,
    output_stack, finished_outputs, inside_blockquote,
    \* the traversal: where it stands in the document
    pc,          \* "traversing" until finish() has run, then "finished"
    outline,     \* the headlines delivered so far, in document order
    nevents,     \* events delivered so far
    file_markers, \* filetags lines carrying the export tag delivered so far
    input,       \* the events of the parsed document a traversal walks through
    traversal,   \* IdTraversal (main.rs lines 237-242)
    \* main (main.rs lines 41-227)
    corpus,      \* the .org files under args.notes: path -> name of its document
    dry,         \* args.dry
    phase,       \* "pass1", "pass2", "done"; "panicked" after a failed expect()
    p1,          \* per file: "todo" or "done", the flat_map closure of pass 1
    nodes,       \* the collected Vec<(Uuid, Node)>
    filenames, headline_names, file_node_names,
    out_dir,     \* whether args.output exists
    p2,          \* per file: "todo", "writing" or "done", the for_each closure
    records,     \* per file: what traversal.finish() returned
    next,        \* per file: the record the writer loop handles next
    disk,        \* the files under args.output: path -> contents
    printed,     \* the lines written to stdout
    run,         \* which run of the program this is
    first_disk,  \* the files as the first run left them
    first_printed, \* the lines the first run wrote to stdout
    \* cal-sync
    agenda,      \* org.rs: the Traversal of the document being read (lines 68-72)
    gcal,        \* gcal.rs: the calendar service and where sync() stands in it
    \* tracing: the warn!() lines of the process, in the order they were logged
    log

mdvars == <<this_file, node_map, headline_map, file_front_matter, entered_headline,
            output_stack, finished_outputs, inside_blockquote,
            pc, outline, nevents, file_markers, input, traversal>>

mainvars == <<corpus, dry, phase, p1, nodes, filenames, headline_names, file_node_names,
              out_dir, p2, records, next, disk, printed, run, first_disk, first_printed>>

\* cal-sync
calvars == <<agenda, gcal>>

vars == <<mdvars, mainvars, calvars, log>>

\* cal-sync has not been started
CalIdle == agenda = <<>> /\ gcal = <<>>

\* the MarkdownExport value held in the variables (pc is "panicked" once a
\* handler has panicked)
Self ==
    [this_file |-> this_file, node_map |-> node_map, headline_map |-> headline_map,
     file_front_matter |-> file_front_matter, entered_headline |-> entered_headline,
     output_stack |-> output_stack, finished_outputs |-> finished_outputs,
     inside_blockquote |-> inside_blockquote, log |-> log, panicked |-> pc = "panicked"]

\* the variables take the fields of m (&mut self after the handler); no handler
\* stepped through SetSelf panics
SetSelf(m) ==
    /\ this_file' = m.this_file
    /\ node_map' = m.node_map
    /\ headline_map' = m.headline_map
    /\ file_front_matter' = m.file_front_matter
    /\ entered_headline' = m.entered_headline
    /\ output_stack' = m.output_stack
    /\ finished_outputs' = m.finished_outputs
    /\ inside_blockquote' = m.inside_blockquote
    /\ log' = m.log

\* ------------------------------------------------- documents of one traversal
A_ORG == <<"a", ".", "o", "r", "g">>

U1 == <<"u", "1">>

U2 == <<"u", "2">>

\* ":ID: u1"
IdProperty(u) == ID_PROP \o <<" ">> \o u

\* a title that names the headline's own level: "S1", "S2", ...
LevelTitle(level) == <<"S", Digit(level)>>

\* "#+filetags: :export:", "#+filetags: :draft:" and "#+title: S1"
SpecKeywords ==
    {[key |-> FILETAGS, value |-> <<" ", ":">> \o EXPORT_TAG \o <<":">>],
     [key |-> FILETAGS, value |-> <<" ", ":", "d", "r", "a", "f", "t", ":">>],
     [key |-> <<"t", "i", "t", "l", "e">>, value |-> <<" ">> \o LevelTitle(1)]}

\* the headline_map main hands to new(): the headlines of this file that carry an
\* identifier, by text range, with "<slug of the title>.org" (main.rs lines 117-126)
SpecHeadlineMaps ==
    UNION {[{<<A_ORG, r>> : r \in S} -> {slugify(LevelTitle(l)) \o DOT_ORG : l \in 1..MaxLevel}] :
           S \in SUBSET (1..MaxIdentified)}

\* the headline the parser delivers next: its text range is its ordinal, and it
\* carries an :ID: exactly when the identifier pass recorded one for that range
SpecHeadline(level, export) ==
    [level |-> level,
     tags |-> IF export THEN <<EXPORT_TAG>> ELSE <<>>,
     title |-> LevelTitle(level),
     properties |-> IF <<this_file, Len(outline) + 1>> \in DOMAIN headline_map
                    THEN <<IdProperty(U1)>> ELSE <<>>,
     range |-> Len(outline) + 1]

\* the identifier pass and this traversal read the same file
SameFile(h) ==
    <<this_file, h.range>> \in DOMAIN headline_map
        => headline_map[<<this_file, h.range>>] = slugify(h.title) \o DOT_ORG

\* orgize's tree: the parent of headline i of the outline is the nearest earlier
\* headline of smaller level (0: the document)
Parent(o, i) ==
    LET up == {j \in 1..(i - 1) : o[j].level < o[i].level} IN
    IF up = {} THEN 0 ELSE CHOOSE j \in up : \A k \in up : k <= j

\* the innermost export-tagged headline that is headline i or encloses it (0: none)
RECURSIVE ExportOwner(_, _)
ExportOwner(o, i) ==
    IF i = 0 THEN 0
    ELSE IF HasExportTag(o[i]) THEN i
    ELSE ExportOwner(o, Parent(o, i))

\* a text that names the export-tagged section it is written in: "x0", "x1", ...
OwnedText(o) == <<"x", Digit(ExportOwner(o, Len(o)))>>

\* main has not been started
MainIdle ==
    /\ corpus = <<>> /\ dry = FALSE /\ phase = "idle" /\ p1 = <<>> /\ nodes = <<>>
    /\ filenames = <<>> /\ headline_names = <<>> /\ file_node_names = <<>>
    /\ out_dir = FALSE /\ p2 = <<>> /\ records = <<>> /\ next = <<>>
    /\ disk = <<>> /\ printed = <<>> /\ run = 0 /\ first_disk = <<>>
    /\ first_printed = <<>>

\* --------------------------------------------------------------------- Spec
Init ==
    /\ this_file = A_ORG
    /\ node_map = (U1 :> slugify(LevelTitle(1)))
    /\ headline_map \in SpecHeadlineMaps
    /\ file_front_matter = <<>>
    /\ entered_headline = FALSE
    /\ output_stack = <<>>
    /\ finished_outputs = <<>>
    /\ inside_blockquote = FALSE
    /\ pc = "traversing"
    /\ outline = <<>>
    /\ nevents = 0
    /\ file_markers = 0
    /\ input = <<>>
    /\ traversal = IdTraversalDefault
    /\ log = <<>>
    /\ MainIdle
    /\ CalIdle

CanStep == pc = "traversing" /\ nevents < MaxEvents

KeywordEvent ==
    \E k \in SpecKeywords :
        /\ CanStep
        /\ SetSelf(EnterKeyword(Self, k))
        /\ file_markers' = IF IsPrefix(FILETAGS, k.key) /\ FiletagsHasExport(k.value)
                           THEN file_markers + 1 ELSE file_markers
        /\ nevents' = nevents + 1
        /\ UNCHANGED <<pc, outline, mainvars, calvars, input, traversal>>

PropertyDrawerEvent ==
    /\ CanStep
    /\ SetSelf(EnterPropertyDrawer(Self, <<IdProperty(U1)>>))
    /\ nevents' = nevents + 1
    /\ UNCHANGED <<pc, outline, file_markers, mainvars, calvars, input, traversal>>

HeadlineEvent ==
    \E level \in 1..MaxLevel, export \in BOOLEAN :
        LET h == SpecHeadline(level, export) IN
        /\ CanStep
        /\ SameFile(h)
        /\ SetSelf(EnterHeadline(Self, h))
        /\ outline' = Append(outline, h)
        /\ nevents' = nevents + 1
        /\ UNCHANGED <<pc, file_markers, mainvars, calvars, input, traversal>>

TextEvent ==
    /\ CanStep
    /\ SetSelf(Text(Self, OwnedText(outline)))
    /\ nevents' = nevents + 1
    /\ UNCHANGED <<pc, outline, file_markers, mainvars, calvars, input, traversal>>

\* finish(self): the stack is drained into the returned finished_outputs
Finish ==
    /\ pc = "traversing"
    /\ pc' = "finished"
    /\ finished_outputs' = finish(Self)
    /\ output_stack' = <<>>
    /\ UNCHANGED <<this_file, node_map, headline_map, file_front_matter, entered_headline,
                   inside_blockquote, outline, nevents, file_markers, mainvars, calvars, input, traversal, log>>

Next ==
    \/ KeywordEvent
    \/ PropertyDrawerEvent
    \/ HeadlineEvent
    \/ TextEvent
    \/ Finish

Spec == Init /\ [][Next]_vars

\* ------------------------------------------------- claims on the splitter
\* every context the traversal holds, open or finished
AllContexts == output_stack \o finished_outputs

\* the export-tagged headlines delivered so far, by text range
Marked == {i \in DOMAIN outline : HasExportTag(outline[i])}

\* the records anchored at the headline of text range r
RecordsOf(r) ==
    {j \in DOMAIN finished_outputs :
        finished_outputs[j][1].kind = "Headline" /\ finished_outputs[j][1].h.range = r}

FileRecords == {j \in DOMAIN finished_outputs : finished_outputs[j][1].kind = "File"}

\* C1: in every reachable state of the traversal the stack holds at most one
\* File context, it sits at index 0 (the bottom), and the Section contexts have
\* strictly increasing levels from bottom to top.
C1_StackOrdered ==
    /\ Cardinality({i \in DOMAIN output_stack : output_stack[i][1].kind = "File"}) <= 1
    /\ \A i \in DOMAIN output_stack : output_stack[i][1].kind = "File" => i = 1
    /\ \A i, j \in DOMAIN output_stack :
        (i < j /\ output_stack[i][1].kind = "Headline" /\ output_stack[j][1].kind = "Headline")
            => output_stack[i][1].h.level < output_stack[j][1].h.level

\* C2: entering a headline of level L moves every open Section context of level
\* >= L, buffer untouched, to finished_outputs, keeps every open Section context of
\* level < L on the stack, and leaves no open Section context of level >= L but
\* the one just pushed.
C2_HeadlinePops ==
    [][Len(outline') = Len(outline) + 1 =>
        LET h == Last(outline') IN
        /\ \A i \in DOMAIN output_stack :
            output_stack[i][1].kind = "Headline" =>
                IF output_stack[i][1].h.level >= h.level
                THEN /\ \A j \in DOMAIN output_stack' : output_stack'[j][1] # output_stack[i][1]
                     /\ \E j \in DOMAIN finished_outputs' : finished_outputs'[j] = output_stack[i]
                ELSE \E j \in DOMAIN output_stack' : output_stack'[j][1] = output_stack[i][1]
        /\ \A j \in DOMAIN output_stack' :
            (output_stack'[j][1].kind = "Headline" /\ output_stack'[j][1].h.level >= h.level)
                => output_stack'[j][1].h.range = h.range]_vars

\* C3: after finish() no context is open, every export-tagged headline has exactly
\* one record, the file has exactly one record when it carries a file-scope export
\* marker, and there is no other record.
C3_OneRecordPerMarkedNode ==
    pc = "finished" =>
        /\ output_stack = <<>>
        /\ \A r \in Marked : Cardinality(RecordsOf(r)) = 1
        /\ Cardinality(FileRecords) = (IF file_markers > 0 THEN 1 ELSE 0)
        /\ Len(finished_outputs) = Cardinality(Marked) + (IF file_markers > 0 THEN 1 ELSE 0)

\* the document's export markers are exactly three headlines of levels 1, 2, 3,
\* each nested in the one before
Nested123 ==
    /\ file_markers = 0
    /\ Cardinality(Marked) = 3
    /\ \E a, b, c \in Marked :
        /\ outline[a].level = 1 /\ outline[b].level = 2 /\ outline[c].level = 3
        /\ ExportOwner(outline, Parent(outline, b)) = a
        /\ ExportOwner(outline, Parent(outline, c)) = b

Digits == {"0", "1", "2", "3", "4", "5", "6", "7", "8", "9"}

\* every text "x<n>" in the buffer of context c names c's own anchor
OwnTextOnly(c) ==
    \A i \in 1..(Len(c[2]) - 1) :
        (c[2][i] = "x" /\ c[2][i + 1] \in Digits) => c[2][i + 1] = Digit(c[1].h.range)

\* every line "<n marks> S<L>" in the buffer of context c has n = L - anchor level
\* and n >= 1
HeadingsRenumbered(c) ==
    \A i \in 1..Len(c[2]) :
        c[2][i] = "\n" =>
            \A n \in 0..6 :
                (/\ i + n + 3 <= Len(c[2])
                 /\ SubSeq(c[2], i + 1, i + n + 1) = Repeat("#", n) \o <<" ">>
                 /\ c[2][i + n + 2] = "S"
                 /\ c[2][i + n + 3] \in Digits)
                    => n >= 1 /\ c[2][i + n + 3] = Digit(n + c[1].h.level)

\* C4: in a document without file-scope marker, a record holds no text written
\* in another export-tagged section's subtree, a heading of source level L in a
\* record anchored at level A is written with L - A >= 1 marks (one mark for a
\* child of the anchor), and three nested export-tagged sections of levels
\* 1 < 2 < 3 end as exactly three records, one each.
C4_Nesting ==
    file_markers = 0 =>
        /\ \A j \in DOMAIN AllContexts :
            OwnTextOnly(AllContexts[j]) /\ HeadingsRenumbered(AllContexts[j])
        /\ (pc = "finished" /\ Nested123) =>
            /\ Len(finished_outputs) = 3
            /\ \A r \in Marked : Cardinality(RecordsOf(r)) = 1

\* C4 witness: the three nested sections are finished as three records, and the
\* level-1 record holds a level-2 headline that followed the nested sections,
\* written with one mark.
C4_Witness ==
    /\ pc = "finished"
    /\ Nested123
    /\ Len(finished_outputs) = 3
    /\ \E j \in DOMAIN finished_outputs :
        /\ finished_outputs[j][1].h.level = 1
        /\ Contains(finished_outputs[j][2], NL \o <<"#", " ">> \o LevelTitle(2))

\* ------------------------------------------------------------ the corpus
KW(key, value) == [type |-> "Keyword", k |-> [key |-> key, value |-> value]]

PD(ps) == [type |-> "PropertyDrawer", ps |-> ps]

HL(level, export, title, props, range) ==
    [type |-> "Headline",
     h |-> [level |-> level, tags |-> IF export THEN <<EXPORT_TAG>> ELSE <<>>,
            title |-> title, properties |-> props, range |-> range]]

TX(text) == [type |-> "Text", text |-> text]

LK(path, description) ==
    [type |-> "Link", link |-> [path |-> path, description |-> description, is_image |-> FALSE]]

TBL(rows) == [type |-> "Table", table |-> rows]

U3 == <<"u", "3">>

T_SUB == <<"S", "u", "b">>

T_TWO == <<"T", "w", "o">>

T_ONE == <<"O", "n", "e">>

T_AB == <<"A", " ", "b">>

T_NOTES == <<"N", "o", "t", "e", "s">>

\* a title without any letter or digit
T_MARKS == <<"?", "!">>

TITLE == <<"t", "i", "t", "l", "e">>

EXPORT_TAGS == <<" ", ":">> \o EXPORT_TAG \o <<":">>

DocNames == {"sub1", "sub2", "link", "plain", "notes", "dup", "late", "bad",
             "empty", "e2e", "table", "marks", "anon", "unreadable"}

\* fs::read_to_string(entry.path()) returns Ok (main.rs lines 75 and 163)
Readable(name) == name # "unreadable"

\* the parsed documents, as the events org.traverse delivers
Document(name) ==
    CASE name = "sub1" ->
            \* * Sub :export: / :ID: u1 / one
            <<HL(1, TRUE, T_SUB, <<IdProperty(U1)>>, 1), TX(<<"o", "n", "e">>)>>
      [] name = "sub2" ->
            \* * Sub :export: / :ID: u2 / two
            <<HL(1, TRUE, T_SUB, <<IdProperty(U2)>>, 1), TX(<<"t", "w", "o">>)>>
      [] name = "link" ->
            \* * A b :export: / :ID: u3 / [[id:u1][t]] [[id:U2]]
            <<HL(1, TRUE, T_AB, <<IdProperty(U3)>>, 1),
              LK(ID_LINK \o U1, <<"t">>), LK(ID_LINK \o <<"U", "2">>, <<>>)>>
      [] name = "plain" ->
            \* * One / :ID: u2
            <<HL(1, FALSE, T_ONE, <<IdProperty(U2)>>, 1), TX(<<"o", "n", "e">>)>>
      [] name = "notes" ->
            \* :ID: u1 / #+title: Sub / #+filetags: :export: / * Two :export: / :ID: u2 / one
            <<PD(<<IdProperty(U1)>>), KW(TITLE, <<" ">> \o T_SUB), KW(FILETAGS, EXPORT_TAGS),
              HL(1, TRUE, T_TWO, <<IdProperty(U2)>>, 1), TX(<<"o", "n", "e">>)>>
      [] name = "dup" ->
            \* * Sub :export: / :ID: u1 / * Two :export: / :ID: u1
            <<HL(1, TRUE, T_SUB, <<IdProperty(U1)>>, 1), HL(1, TRUE, T_TWO, <<IdProperty(U1)>>, 2)>>
      [] name \in {"empty", "unreadable"} ->
            \* a file without content; one that cannot be read
            <<>>
      [] name = "e2e" ->
            \* :ID: u1 / #+title: Notes / #+filetags: :export: / * Sub :export: / :ID: u2
            <<PD(<<IdProperty(U1)>>), KW(TITLE, <<" ">> \o T_NOTES), KW(FILETAGS, EXPORT_TAGS),
              HL(1, TRUE, T_SUB, <<IdProperty(U2)>>, 1)>>
      [] name = "table" ->
            \* * Sub :export: / :ID: u1 / one / |c1|c2| / two
            <<HL(1, TRUE, T_SUB, <<IdProperty(U1)>>, 1), TX(<<"o", "n", "e", "\n">>),
              TBL(<<<<<<"c", "1">>, <<"c", "2">>>>>>), TX(<<"t", "w", "o">>)>>
      [] name = "marks" ->
            \* * ?! :export: / :ID: u1
            <<HL(1, TRUE, T_MARKS, <<IdProperty(U1)>>, 1)>>
      [] name = "anon" ->
            \* #+filetags: :export: / * Sub :export: / one / * Two :export: / :ID: u2
            <<KW(FILETAGS, EXPORT_TAGS), HL(1, TRUE, T_SUB, <<>>, 1), TX(<<"o", "n", "e">>),
              HL(1, TRUE, T_TWO, <<IdProperty(U2)>>, 2)>>
      [] name = "bad" ->
            \* * Sub :export: / :ID: zz
            <<HL(1, TRUE, T_SUB, <<ID_PROP \o <<" ", "z", "z">>>>, 1)>>
      [] OTHER ->
            \* "late": * A b :export: / :ID: u3 / #+filetags: :export: / [[id:u1][t]]
            <<HL(1, TRUE, T_AB, <<IdProperty(U3)>>, 1), KW(FILETAGS, EXPORT_TAGS),
              LK(ID_LINK \o U1, <<"t">>)>>

B_ORG == <<"b", ".", "o", "r", "g">>

\* the .org files WalkDir finds under args.notes
Paths == {A_ORG, B_ORG}

\* args.output
OUT == <<"o">>

Doc(path) == Document(corpus[path])

\* ----------------------------------------------------------------- SpecMain
MdIdle ==
    /\ this_file = <<>> /\ node_map = <<>> /\ headline_map = <<>> /\ file_front_matter = <<>>
    /\ entered_headline = FALSE /\ output_stack = <<>> /\ finished_outputs = <<>>
    /\ inside_blockquote = FALSE /\ pc = "idle" /\ outline = <<>> /\ nevents = 0
    /\ file_markers = 0 /\ input = <<>> /\ traversal = IdTraversalDefault

\* main.rs lines 41-57: a fresh process
Started ==
    /\ phase = "pass1"
    /\ p1 = [p \in Paths |-> "todo"]
    /\ nodes = <<>>
    /\ filenames = <<>> /\ headline_names = <<>> /\ file_node_names = <<>>
    /\ p2 = [p \in Paths |-> "todo"]
    /\ records = [p \in Paths |-> <<>>]
    /\ next = [p \in Paths |-> 1]
    /\ printed = <<>>

InitMain ==
    /\ MdIdle
    /\ CalIdle
    /\ corpus \in [Paths -> DocNames]
    /\ dry \in BOOLEAN
    /\ Started
    /\ out_dir = FALSE
    /\ disk = <<>>
    /\ run = 1
    /\ first_disk = <<>>
    /\ first_printed = <<>>
    /\ log = <<>>

\* main.rs lines 72-97: the flat_map closure of pass 1 for one file
Pass1(path) ==
    /\ phase = "pass1"
    /\ p1[path] = "todo"
    /\ LET t == IdTraverse(IdTraversalDefault, Doc(path)) IN
       IF ~Readable(corpus[path]) \/ t.panicked
       THEN /\ phase' = "panicked"
            /\ UNCHANGED <<p1, nodes>>
       ELSE /\ \E order \in Orders(DOMAIN t.headline_uuids) :
                nodes' = nodes \o DocNodes(path, t, order)
            /\ p1' = [p1 EXCEPT ![path] = "done"]
            /\ UNCHANGED phase
    /\ UNCHANGED <<mdvars, calvars, corpus, dry, filenames, headline_names, file_node_names, out_dir,
                   p2, records, next, disk, printed, run, first_disk, first_printed, log>>

\* collect() has returned: every closure of pass 1 has run
Pass1Complete == \A p \in Paths : p1[p] = "done"

\* main.rs lines 98-142: the three tables, then create_dir_all
BuildTables ==
    /\ phase = "pass1"
    /\ Pass1Complete
    /\ filenames' = Filenames(nodes)
    /\ headline_names' = HeadlineNames(nodes)
    /\ file_node_names' = FileNodeNames(nodes)
    /\ out_dir' = (out_dir \/ ~dry)
    /\ phase' = "pass2"
    /\ UNCHANGED <<mdvars, calvars, corpus, dry, p1, nodes, p2, records, next, disk, printed, run,
                   first_disk, first_printed, log>>

\* pass 2 without the barrier of collect(): a file is rendered while pass 1 runs
Pass2ReadyEarly(path) == phase \in {"pass1", "pass2"} /\ p2[path] = "todo"

\* main.rs lines 145-159: when the for_each closure of pass 2 may run for a file
Pass2Ready(path) == phase = "pass2" /\ p2[path] = "todo"

\* main.rs lines 159-176: read, parse, traverse, finish; a panic of the closure
\* ends the process
Pass2Start(path) ==
    /\ Pass2Ready(path)
    /\ LET me == Traverse(new(path, filenames, headline_names), Doc(path))
           recs == finish(me)
       IN IF ~Readable(corpus[path]) \/ me.panicked
          THEN /\ phase' = "panicked"
               /\ UNCHANGED <<records, p2, log>>
          ELSE /\ records' = [records EXCEPT ![path] = recs]
               /\ p2' = [p2 EXCEPT ![path] = IF recs = <<>> THEN "done" ELSE "writing"]
               /\ log' = log \o me.log
               /\ UNCHANGED phase
    /\ UNCHANGED <<mdvars, calvars, corpus, dry, p1, nodes, filenames, headline_names,
                   file_node_names, out_dir, next, disk, printed, run, first_disk, first_printed>>

\* main.rs lines 183-187 and 198-202: the warning for a record without filename
NoIdWarning(path, ex_ctx) ==
    IF ex_ctx.kind = "File"
    THEN Warning("file with export tag but no id", path, path)
    ELSE Warning("headline with export tag but no id", ex_ctx.h.title, path)

\* the writer loop with println!() inside the test of args.dry
Pass2WriteQuiet(path) ==
    /\ phase = "pass2"
    /\ p2[path] = "writing"
    /\ LET rec == records[path][next[path]]
           out_path == OutPath(OUT, path, rec[1], headline_names, file_node_names)
       IN /\ printed' = IF out_path # <<>> /\ ~dry THEN Append(printed, out_path[1]) ELSE printed
          /\ disk' = IF out_path # <<>> /\ ~dry THEN Insert(disk, out_path[1], rec[2]) ELSE disk
          /\ log' = IF out_path = <<>> THEN Append(log, NoIdWarning(path, rec[1])) ELSE log
    /\ next' = [next EXCEPT ![path] = @ + 1]
    /\ p2' = [p2 EXCEPT ![path] = IF next[path] = Len(records[path]) THEN "done" ELSE "writing"]
    /\ UNCHANGED <<mdvars, calvars, corpus, dry, phase, p1, nodes, filenames, headline_names,
                   file_node_names, out_dir, records, run, first_disk, first_printed>>

\* the writer loop ending at the first record without filename
Pass2WriteAbort(path) ==
    /\ phase = "pass2"
    /\ p2[path] = "writing"
    /\ LET rec == records[path][next[path]]
           out_path == OutPath(OUT, path, rec[1], headline_names, file_node_names)
       IN /\ printed' = IF out_path # <<>> THEN Append(printed, out_path[1]) ELSE printed
          /\ disk' = IF out_path # <<>> /\ ~dry THEN Insert(disk, out_path[1], rec[2]) ELSE disk
          /\ log' = IF out_path = <<>> THEN Append(log, NoIdWarning(path, rec[1])) ELSE log
          /\ p2' = [p2 EXCEPT ![path] =
                        IF next[path] = Len(records[path]) \/ out_path = <<>>
                        THEN "done" ELSE "writing"]
    /\ next' = [next EXCEPT ![path] = @ + 1]
    /\ UNCHANGED <<mdvars, calvars, corpus, dry, phase, p1, nodes, filenames, headline_names,
                   file_node_names, out_dir, records, run, first_disk, first_printed>>

\* main.rs lines 176-220: one turn of the writer loop
Pass2Write(path) ==
    /\ phase = "pass2"
    /\ p2[path] = "writing"
    /\ LET rec == records[path][next[path]]
           out_path == OutPath(OUT, path, rec[1], headline_names, file_node_names)
       IN /\ printed' = IF out_path # <<>> THEN Append(printed, out_path[1]) ELSE printed
          /\ disk' = IF out_path # <<>> /\ ~dry THEN Insert(disk, out_path[1], rec[2]) ELSE disk
          /\ log' = IF out_path = <<>> THEN Append(log, NoIdWarning(path, rec[1])) ELSE log
    /\ next' = [next EXCEPT ![path] = @ + 1]
    /\ p2' = [p2 EXCEPT ![path] = IF next[path] = Len(records[path]) THEN "done" ELSE "writing"]
    /\ UNCHANGED <<mdvars, calvars, corpus, dry, phase, p1, nodes, filenames, headline_names,
                   file_node_names, out_dir, records, run, first_disk, first_printed>>

\* main.rs lines 222-226: for_each has returned, main returns Ok
Exit ==
    /\ phase = "pass2"
    /\ \A p \in Paths : p2[p] = "done"
    /\ phase' = "done"
    /\ first_disk' = IF run = 1 THEN disk ELSE first_disk
    /\ first_printed' = IF run = 1 THEN printed ELSE first_printed
    /\ UNCHANGED <<mdvars, calvars, corpus, dry, p1, nodes, filenames, headline_names, file_node_names,
                   out_dir, p2, records, next, disk, printed, run, log>>

\* the program is run again on the same corpus, to the same output root, with
\* or without --dry
Rerun ==
    /\ phase = "done"
    /\ run < MaxRuns
    /\ dry' \in BOOLEAN
    /\ run' = run + 1
    /\ phase' = "pass1"
    /\ p1' = [p \in Paths |-> "todo"]
    /\ nodes' = <<>>
    /\ filenames' = <<>> /\ headline_names' = <<>> /\ file_node_names' = <<>>
    /\ p2' = [p \in Paths |-> "todo"]
    /\ records' = [p \in Paths |-> <<>>]
    /\ next' = [p \in Paths |-> 1]
    /\ printed' = <<>>
    /\ log' = <<>>
    /\ UNCHANGED <<mdvars, calvars, corpus, out_dir, disk, first_disk, first_printed>>

NextMain ==
    \/ \E path \in Paths : Pass1(path)
    \/ BuildTables
    \/ \E path \in Paths : Pass2Start(path)
    \/ \E path \in Paths : Pass2Write(path)
    \/ Exit
    \/ Rerun

SpecMain == InitMain /\ [][NextMain]_vars

\* ------------------------------------------------- claims on the pipeline
\* the headlines among the first i events of a document
HeadlinesBefore(doc, i) ==
    LET hs == SelectSeq(SubSeq(doc, 1, i), LAMBDA e : e.type = "Headline") IN
    [j \in 1..Len(hs) |-> hs[j].h]

IsFileMarker(e) ==
    e.type = "Keyword" /\ IsPrefix(FILETAGS, e.k.key) /\ FiletagsHasExport(e.k.value)

\* the document carries a file-scope export marker
FileMarked(doc) == \E i \in DOMAIN doc : IsFileMarker(doc[i])

\* the identifier a sequence of raw properties gives its node (Invalid: none)
IdOf(ps) == IF FirstIdProp(ps) = 0 THEN Invalid ELSE ParseUuid(IdText(ps[FirstIdProp(ps)]))

\* the identified nodes of the corpus: [path, at, uuid, export, slug], at being
\* the headline's text range (0: the file)
CorpusNodes ==
    UNION {
        {[path |-> p, at |-> Doc(p)[i].h.range, uuid |-> IdOf(Doc(p)[i].h.properties),
          export |-> HasExportTag(Doc(p)[i].h), slug |-> slugify(Doc(p)[i].h.title)] :
            i \in {i \in DOMAIN Doc(p) :
                    Doc(p)[i].type = "Headline" /\ IdOf(Doc(p)[i].h.properties) # Invalid}}
        \cup
        {[path |-> p, at |-> 0, uuid |-> IdOf(Doc(p)[i].ps),
          export |-> FileMarked(Doc(p)), slug |-> FileStem(p)] :
            i \in {i \in DOMAIN Doc(p) :
                    /\ Doc(p)[i].type = "PropertyDrawer"
                    /\ HeadlinesBefore(Doc(p), i) = <<>>
                    /\ IdOf(Doc(p)[i].ps) # Invalid}}
        : p \in Paths}

\* the identifiers carried by two nodes of the corpus
DuplicateIds ==
    {u \in Uuids : \E m, n \in CorpusNodes : m # n /\ m.uuid = u /\ n.uuid = u}

\* the identifier-style links of a document, by position
IdLinks(doc) ==
    {i \in DOMAIN doc : doc[i].type = "Link" /\ IsPrefix(ID_LINK, doc[i].link.path)}

LinkUuid(link) == ParseUuid(TrimStartMatches(link.path, ID_LINK))

\* the finished records of file p anchored at the export-marked node that owns
\* position i of its document: the innermost export-tagged headline, else the file
OwnerRecords(p, i) ==
    LET o == HeadlinesBefore(Doc(p), i)
        own == ExportOwner(o, Len(o))
    IN {j \in DOMAIN records[p] :
            IF own # 0
            THEN records[p][j][1].kind = "Headline" /\ records[p][j][1].h.range = o[own].range
            ELSE records[p][j][1].kind = "File"}

\* the link text for a target: "[[slug][description]]" or "[[slug]]"
LinkText(slug, description) ==
    IF description # <<>>
    THEN <<"[", "[">> \o slug \o <<"]", "[">> \o description \o <<"]", "]">>
    ELSE <<"[", "[">> \o slug \o <<"]", "]">>

\* every closure of pass 1 left its nodes in the collected Vec
NodesMerged ==
    \A p \in Paths :
        LET t == IdTraverse(IdTraversalDefault, Doc(p)) IN
        /\ t.file_uuid # <<>> =>
            \E i \in DOMAIN nodes : nodes[i] = <<t.file_uuid[1], NodeFile(p)>>
        /\ \A u \in DOMAIN t.headline_uuids :
            \E i \in DOMAIN nodes :
                nodes[i] = <<u, NodeHeadline(p, t.headline_uuids[u].title, t.headline_uuids[u].range)>>

\* C5: whenever the pass-2 closure of some file has started, pass 1 has completed
\* for every file, its nodes are all in the merged Vec, and the three tables are
\* the ones built from it.
C5_Pass2AfterIndex ==
    \A p \in DOMAIN p2 :
        p2[p] # "todo" =>
            /\ Pass1Complete
            /\ NodesMerged
            /\ phase \in {"pass2", "done"}
            /\ filenames = Filenames(nodes)
            /\ headline_names = HeadlineNames(nodes)
            /\ file_node_names = FileNodeNames(nodes)

\* C5 witness: one file's pass 2 has started while the other's has not, over a
\* non-empty index.
C5_Witness ==
    /\ phase = "pass2"
    /\ p2[A_ORG] = "todo"
    /\ p2[B_ORG] = "writing"
    /\ filenames # <<>>

\* C6: when two nodes of the corpus carry the same identifier, the run does not
\* complete and no filenames table holding that identifier is ever built.
C6_DuplicateIdFatal ==
    \A u \in DuplicateIds : phase # "done" /\ u \notin DOMAIN filenames

PathOrder == <<A_ORG, B_ORG>>

\* the files after the writer loop of file p has handled recs, from files d
RECURSIVE WriteAll(_, _, _)
WriteAll(d, p, recs) ==
    IF recs = <<>> THEN d
    ELSE LET out_path == OutPath(OUT, p, recs[1][1], headline_names, file_node_names) IN
         WriteAll(IF out_path # <<>> /\ ~dry THEN Insert(d, out_path[1], recs[1][2]) ELSE d,
                  p, Tail(recs))

\* the files when the pass-2 closures run one after the other, in PathOrder
RECURSIVE SequentialDisk(_, _)
SequentialDisk(d, ps) ==
    IF ps = <<>> THEN d ELSE SequentialDisk(WriteAll(d, ps[1], records[ps[1]]), Tail(ps))

\* C7: when the first run has ended, the files under the output root, names and
\* contents, are those of one fixed order of the pass-2 closures, whatever the
\* interleaving was.
C7_OrderIndependent ==
    (phase = "done" /\ run = 1) => disk = SequentialDisk(<<>>, PathOrder)

\* C8: when a further run on the unchanged corpus has ended, every file is
\* as the first run left it.
C8_Idempotent ==
    (phase = "done" /\ run >= 2) => disk = first_disk

\* C9: once a file is rendered, for every identifier-style link written in the
\* content of an export-marked node A to an export-marked node B, a record of A
\* holds the link to B's slug, with the description when there is one.
C9_LinkRoundTrip ==
    \A p \in DOMAIN p2 :
        p2[p] # "todo" =>
            \A i \in IdLinks(Doc(p)) :
                \A b \in CorpusNodes :
                    (b.export /\ b.uuid = LinkUuid(Doc(p)[i].link)) =>
                        \E j \in OwnerRecords(p, i) :
                            Contains(records[p][j][2], LinkText(b.slug, Doc(p)[i].link.description))

\* the link at position i of file p's document is rendered into some context
Emitted(p, i) ==
    Traverse(new(p, filenames, headline_names), SubSeq(Doc(p), 1, i - 1)).output_stack # <<>>

\* C10: when a run that writes has ended, every identifier-style link that was
\* rendered into a context and resolved in the filenames table names a file that
\* is under the output root.
C10_LinksNameProducedFiles ==
    (phase = "done" /\ ~dry) =>
        \A p \in Paths :
            \A i \in IdLinks(Doc(p)) :
                LET u == LinkUuid(Doc(p)[i].link) IN
                (Emitted(p, i) /\ u \in DOMAIN filenames)
                    => WithExtension(Join(OUT, filenames[u]), ORG) \in DOMAIN disk

\* ------------------------------------------------- claims on names and records
\* the context a node of the corpus anchors
NodeContext(n) ==
    IF n.at = 0 THEN CtxFile ELSE CtxHeadline([NoHeadline EXCEPT !.range = n.at])

\* the file under the output root that a link "[[name]]" names
LinkedFile(name) == Join(OUT, name \o DOT_ORG)

\* the file under the output root that an embed "![[name]]" names
EmbeddedFile(name) == Join(OUT, name)

\* C11: once the tables are built, for every identified node (whose identifier
\* no other node carries) the file its entry of the id-to-filename table names,
\* the file its entry of the structural-target table names, and the path pass 2
\* writes its record to are the same file.
C11_SlugsAgree ==
    phase \in {"pass2", "done"} =>
        \A n \in CorpusNodes :
            n.uuid \notin DuplicateIds =>
                LET written == OutPath(OUT, n.path, NodeContext(n), headline_names, file_node_names) IN
                /\ written # <<>>
                /\ n.uuid \in DOMAIN filenames
                /\ LinkedFile(filenames[n.uuid]) = written[1]
                /\ n.at # 0 => EmbeddedFile(headline_names[<<n.path, n.at>>]) = written[1]

\* C12: once the tables are built, the entry of every collected node in the
\* id-to-filename table is the name its own kind and title (or file name) give,
\* and so is its entry in the structural-target table, whatever the merge order
\* and the other nodes were.
C12_SlugStable ==
    phase \in {"pass2", "done"} =>
        \A i \in DOMAIN nodes :
            LET u == nodes[i][1]
                n == nodes[i][2]
            IN /\ filenames[u] = NodeFname(n)
               /\ n.kind = "Headline" => headline_names[<<n.path, n.range>>] = HeadlineFname(n.title)

\* buf begins with an opening delimiter line, then lines among which a title
\* entry, then a closing delimiter line
FrontMatterBlock(buf) ==
    /\ IsPrefix(DELIM, buf)
    /\ \E c \in 5..(Len(buf) - 3) :
        /\ buf[c - 1] = "\n"
        /\ SubSeq(buf, c, c + 3) = DELIM
        /\ \E t \in 5..(c - 1) :
            buf[t - 1] = "\n" /\ SubSeq(buf, t, t + 6) = TITLE_KEY

\* the document has had a "#+title:" line
HasTitleLine == \E i \in DOMAIN file_front_matter : file_front_matter[i][1] = TITLE

\* C13: every record finish() returns begins with a front-matter block holding a
\* title entry: every Section record, and the File record of a document that has
\* a title line.
C13_FrontMatterPresent ==
    pc = "finished" =>
        \A j \in DOMAIN finished_outputs :
            (finished_outputs[j][1].kind = "Headline" \/ HasTitleLine)
                => FrontMatterBlock(finished_outputs[j][2])

\* ------------------------------------------------- claims on resilience
\* the context on top of the stack when event i of file p's document arrives
CurrentContext(p, i) ==
    Last(Traverse(new(p, filenames, headline_names), SubSeq(Doc(p), 1, i - 1)).output_stack)[1]

\* the finished records of file p for the context that was current at event i
CurrentRecords(p, i) ==
    {j \in DOMAIN records[p] : records[p][j][1] = CurrentContext(p, i)}

\* the identifier-style links of file p that are rendered into a context and
\* whose (well-formed) identifier is not in the id-to-filename table
UnresolvedLinks(p) ==
    {i \in IdLinks(Doc(p)) :
        /\ LinkUuid(Doc(p)[i].link) # Invalid
        /\ LinkUuid(Doc(p)[i].link) \notin DOMAIN filenames
        /\ Emitted(p, i)}

\* what an identifier-style link leaves in the buffer
RenderedIdLink(link) ==
    IF LinkUuid(link) \in DOMAIN filenames
    THEN LinkText(filenames[LinkUuid(link)], link.description)
    ELSE NOLINK_MSG(LinkUuid(link))

\* what the event after event i of file p's document leaves in the buffer, when
\* it is a text or an identifier-style link
Following(p, i) ==
    IF i + 1 \notin DOMAIN Doc(p) THEN <<>>
    ELSE IF Doc(p)[i + 1].type = "Text" THEN Doc(p)[i + 1].text
    ELSE IF i + 1 \in IdLinks(Doc(p)) THEN RenderedIdLink(Doc(p)[i + 1].link)
    ELSE <<>>

Logged(w) == \E k \in DOMAIN log : log[k] = w

\* C14: with the tables built, a rendered identifier-style link whose identifier
\* is not in the id-to-filename table never makes the run panic; once its file is
\* traversed the record of the context that was current holds the placeholder
\* followed by what the next event renders, the warning is in the log, and once
\* the writer loop has ended that record's path (when it has one) is printed and,
\* in a run that writes, is a file under the output root.
C14_UnresolvedLinkResilient ==
    \A p \in DOMAIN p2 :
        (Pass1Complete /\ phase # "pass1") =>
            \A i \in UnresolvedLinks(p) :
                LET u == LinkUuid(Doc(p)[i].link) IN
                /\ phase # "panicked"
                /\ p2[p] # "todo" =>
                    /\ \E j \in CurrentRecords(p, i) :
                        Contains(records[p][j][2], NOLINK_MSG(u) \o Following(p, i))
                    /\ Logged(Warning("link to non-existent uuid", u, p))
                /\ p2[p] = "done" =>
                    \A j \in CurrentRecords(p, i) :
                        LET out_path == OutPath(OUT, p, records[p][j][1], headline_names, file_node_names) IN
                        out_path # <<>> =>
                            /\ \E k \in DOMAIN printed : printed[k] = out_path[1]
                            /\ ~dry => out_path[1] \in DOMAIN disk

\* C14 witness: a run that writes has ended, the document "link" was exported
\* with both its links unresolved, and the file written for it holds the two
\* placeholders.
C14_Witness ==
    /\ phase = "done" /\ ~dry /\ run = 1
    /\ corpus[A_ORG] = "link" /\ corpus[B_ORG] = "empty"
    /\ UnresolvedLinks(A_ORG) = IdLinks(Doc(A_ORG))
    /\ Contains(disk[Join(OUT, slugify(T_AB) \o DOT_ORG)], NOLINK_MSG(U1) \o NOLINK_MSG(U2))
    /\ Len(log) = 2

\* the tables of file p's document that arrive while a context is open
EmittedTables(p) == {i \in DOMAIN Doc(p) : Doc(p)[i].type = "Table" /\ Emitted(p, i)}

\* the texts of the cells of a table
CellTexts(table) == {table[r][c] : r \in DOMAIN table, c \in 1..Len(table[1])}

\* how often s holds t
Occurrences(s, t) ==
    Cardinality({k \in 0..(Len(s) - Len(t)) : SubSeq(s, k + 1, k + Len(t)) = t})

\* what the event before event i of file p's document left in the buffer, when
\* it is a text
Preceding(p, i) ==
    IF i - 1 \in DOMAIN Doc(p) /\ Doc(p)[i - 1].type = "Text" THEN Doc(p)[i - 1].text ELSE <<>>

\* the sum of f over the set S of indices
RECURSIVE Sum(_, _)
Sum(f, S) ==
    IF S = {} THEN 0 ELSE LET x == CHOOSE x \in S : TRUE IN f[x] + Sum(f, S \ {x})

\* C15: once a file is traversed, every table that arrived while a context was
\* open has left the placeholder line, right after what preceded it and right
\* before what follows it, in the record of the context that was current; the
\* records of the file hold one placeholder per such table and no text of any
\* cell; the warning is in the log; and the traversal did not panic.
C15_TableSkipped ==
    \A p \in DOMAIN p2 :
        (p2[p] # "todo" /\ EmittedTables(p) # {}) =>
            /\ phase # "panicked"
            /\ Sum([j \in DOMAIN records[p] |-> Occurrences(records[p][j][2], SKIPPED_TABLE)],
                   DOMAIN records[p]) = Cardinality(EmittedTables(p))
            /\ \A i \in EmittedTables(p) :
                /\ \E j \in CurrentRecords(p, i) :
                    Contains(records[p][j][2], Preceding(p, i) \o SKIPPED_TABLE \o Following(p, i))
                /\ \A j \in DOMAIN records[p] :
                    \A c \in CellTexts(Doc(p)[i].table) : ~Contains(records[p][j][2], c)
                /\ Logged(Warning("skipping org table", TableRowRaw(Doc(p)[i].table[1]), p))

\* C15 witness: the document "table" is traversed and its record is the
\* section preamble, the first text, the placeholder line and the second text.
C15_Witness ==
    /\ corpus[A_ORG] = "table"
    /\ p2[A_ORG] # "todo"
    /\ Len(records[A_ORG]) = 1
    /\ records[A_ORG][1][2] =
        SectionPreamble(Doc(A_ORG)[1].h) \o Doc(A_ORG)[2].text \o SKIPPED_TABLE \o Doc(A_ORG)[4].text

\* ------------------------------------------------- claims on whole runs
DOT_MD == <<".", "m", "d">>

\* the closing delimiter lines of a file's content, by position
ClosingDelimiters(content) ==
    {c \in 5..(Len(content) - 3) : content[c - 1] = "\n" /\ SubSeq(content, c, c + 3) = DELIM}

\* content begins with a front-matter block that holds the line "title: <title>"
TitledFrontMatter(content, title) ==
    /\ IsPrefix(DELIM, content)
    /\ \E c \in ClosingDelimiters(content) :
        Contains(SubSeq(content, 4, c - 1), NL \o TITLE_KEY \o title \o NL)

\* what follows the first front-matter block
Body(content) ==
    LET c == CHOOSE c \in ClosingDelimiters(content) : \A d \in ClosingDelimiters(content) : c <= d
    IN SubSeq(content, c + 4, Len(content))

\* C16: when a writing run over the corpus of the one document "e2e" (file-level
\* identity, title Notes, file-scope export tag, one export-tagged child section
\* Sub with identity) has ended, the output root holds exactly two files, the
\* document's and sub.md; the first has front matter with `title: Notes` and a
\* body holding an embed reference to sub.md, the second has front matter with
\* `title: Sub` and an otherwise empty body.  (The document's file is named after
\* its source file.)
C16_EndToEnd ==
    (corpus[A_ORG] = "e2e" /\ corpus[B_ORG] = "empty" /\ phase = "done" /\ ~dry /\ run = 1) =>
        LET notes_md == Join(OUT, FileStem(A_ORG) \o DOT_MD)
            sub_md == Join(OUT, slugify(T_SUB) \o DOT_MD)
        IN /\ DOMAIN disk = {notes_md, sub_md}
           /\ TitledFrontMatter(disk[notes_md], T_NOTES)
           /\ Contains(Body(disk[notes_md]), <<"!", "[", "[">> \o slugify(T_SUB) \o DOT_MD \o <<"]", "]">>)
           /\ TitledFrontMatter(disk[sub_md], T_SUB)
           /\ Trim(Body(disk[sub_md])) = <<>>

\* the lines of seq, each with the number of times it occurs
BagOfLines(seq) ==
    [x \in {seq[i] : i \in DOMAIN seq} |-> Cardinality({i \in DOMAIN seq : seq[i] = x})]

\* C17: no step of a dry run changes the files under the output root or creates
\* the output directory, and a further run over the same corpus, dry or not,
\* prints the same output paths as the first run did.
C17_DryRunFrame ==
    /\ [][dry => (disk' = disk /\ out_dir' = out_dir)]_vars
    /\ []((phase = "done" /\ run >= 2) => BagOfLines(printed) = BagOfLines(first_printed))

\* C17 witness: a dry run after a run that wrote has ended: it printed paths,
\* and the files are as the first run left them.
C17_Witness ==
    /\ phase = "done" /\ run = 2 /\ dry
    /\ first_disk # <<>>
    /\ printed # <<>>
    /\ disk = first_disk

\* the records of file p the writer loop has handled
Handled(p) == 1..(next[p] - 1)

\* the path of record j of file p (<<>>: its filename does not resolve)
RecordPath(p, j) == OutPath(OUT, p, records[p][j][1], headline_names, file_node_names)

\* the handled records, of all files, whose filename resolves
Resolved == {pj \in UNION {{<<p, j>> : j \in Handled(p)} : p \in Paths} : RecordPath(pj[1], pj[2]) # <<>>}

\* C18: in pass 2, a handled record whose filename does not resolve has its
\* warning in the log and nothing else; every handled record whose filename
\* resolves is printed and, in a run that writes, written; nothing else is
\* printed or (in a first run) written; the writer loop of a file ends only after
\* its last record; and the run does not panic.
C18_SkipAlone ==
    phase \in {"pass2", "done"} =>
        /\ \A p \in Paths :
            /\ p2[p] = "done" => next[p] = Len(records[p]) + 1
            /\ \A j \in Handled(p) :
                IF RecordPath(p, j) = <<>>
                THEN Logged(NoIdWarning(p, records[p][j][1]))
                ELSE /\ \E k \in DOMAIN printed : printed[k] = RecordPath(p, j)[1]
                     /\ ~dry => RecordPath(p, j)[1] \in DOMAIN disk
        /\ Len(printed) = Cardinality(Resolved)
        /\ (run = 1 /\ ~dry) => DOMAIN disk = {RecordPath(pj[1], pj[2])[1] : pj \in Resolved}

\* C18 witness: the document "anon" (export-tagged file without identity, an
\* export-tagged headline without identity, one with) has been written: two
\* records were skipped with their warnings, the third is the only file.
C18_Witness ==
    /\ phase = "done" /\ ~dry /\ run = 1
    /\ corpus[A_ORG] = "anon" /\ corpus[B_ORG] = "empty"
    /\ Len(records[A_ORG]) = 3
    /\ Logged(NoIdWarning(A_ORG, CtxFile))
    /\ Logged(NoIdWarning(A_ORG, CtxHeadline(Doc(A_ORG)[2].h)))
    /\ DOMAIN disk = {Join(OUT, slugify(T_TWO) \o DOT_ORG)}

\* the document carries an identity property that is no uuid, on a headline or
\* in a drawer before the first headline
HasInvalidId(doc) ==
    \E i \in DOMAIN doc :
        \/ /\ doc[i].type = "Headline"
           /\ FirstIdProp(doc[i].h.properties) # 0
           /\ IdOf(doc[i].h.properties) = Invalid
        \/ /\ doc[i].type = "PropertyDrawer"
           /\ HeadlinesBefore(doc, i) = <<>>
           /\ FirstIdProp(doc[i].ps) # 0
           /\ IdOf(doc[i].ps) = Invalid

\* C19: over a corpus holding a file that cannot be read or a document with an
\* invalid identifier, the run never leaves pass 1 but by panicking: no pass-2
\* closure starts, no record is produced, no path is printed, the output
\* directory is not created and no file is written.
C19_FatalPass1BlocksPass2 ==
    (\E p \in Paths : ~Readable(corpus[p]) \/ HasInvalidId(Doc(p))) =>
        /\ phase \in {"pass1", "panicked"}
        /\ \A p \in Paths : p2[p] = "todo" /\ records[p] = <<>>
        /\ printed = <<>>
        /\ ~out_dir
        /\ disk = <<>>

\* C19 witness: pass 1 has panicked on the document with the invalid identifier
\* after the other document was indexed.
C19_Witness ==
    /\ phase = "panicked"
    /\ corpus[A_ORG] = "bad" /\ corpus[B_ORG] = "sub2"
    /\ p1[B_ORG] = "done"
    /\ nodes # <<>>

\* ------------------------------------------------- claims on the File context
\* the File contexts the traversal holds, open or finished
FileContexts == {j \in DOMAIN AllContexts : AllContexts[j][1].kind = "File"}

\* C20: a step that delivers a file-scope export marker opens the File context
\* when it is the first marker of the document, and opens no File context when
\* it is a further one.
C20_FileOpenedOnce ==
    [][file_markers' > file_markers =>
        Cardinality(FileContexts') = (IF file_markers = 0 THEN 1 ELSE Cardinality(FileContexts))]_vars

\* -------------------------------------------- claims on contexts and headings
\* C21: a File context is finalized only by finish(): no event of the traversal
\* (headlines of every level included) adds a File record to finished_outputs or
\* takes a File context off the stack, and finish() moves every open File context
\* to the finished outputs.
C21_FileFinalizedAtEnd ==
    [][IF pc' = "traversing"
       THEN /\ \A j \in DOMAIN finished_outputs' :
                finished_outputs'[j][1].kind = "File" =>
                    j \in DOMAIN finished_outputs /\ finished_outputs[j] = finished_outputs'[j]
            /\ \A i \in DOMAIN output_stack :
                output_stack[i][1].kind = "File" =>
                    i \in DOMAIN output_stack' /\ output_stack'[i][1].kind = "File"
       ELSE Cardinality({j \in DOMAIN finished_outputs' : finished_outputs'[j][1].kind = "File"})
                = Cardinality(FileRecords) + Cardinality(FileContexts)]_vars

\* a headline has closed a section while the File context stayed open under it
C21_Witness ==
    /\ pc = "traversing"
    /\ FileContexts # {}
    /\ finished_outputs # <<>>
    /\ outline # <<>> /\ Last(outline).level = 1

\* C22: after finish(), when the traversal opened a File context, the File
\* record is the last of the finished outputs and its buffer begins with the
\* file-level front matter.
C22_FileRecordLast ==
    (pc = "finished" /\ FileRecords # {}) =>
        \A j \in FileRecords :
            /\ j = Len(finished_outputs)
            /\ IsPrefix(FilePreamble(file_front_matter), finished_outputs[j][2])

\* "![[f]]" and a blank line
EmbedReference(f) == <<"!", "[", "[">> \o f \o <<"]", "]">> \o NL \o NL

\* C23: a step that enters an export-tagged headline leaves n contexts open
\* beneath the new section.  The contexts it closed are moved to finished_outputs
\* with their buffers untouched and the contexts below the parent are untouched;
\* when n > 0 the parent's buffer grows by exactly one item, the embed reference
\* to the section's filename or, when the section has none, the placeholder
\* together with one logged warning; when n = 0 nothing is appended and nothing
\* is logged.
C23_EmbedInParentOnly ==
    [][(Len(outline') = Len(outline) + 1 /\ HasExportTag(Last(outline'))) =>
        LET h == Last(outline')
            n == Len(output_stack') - 1
            closed == Len(output_stack) - n
            f == Get(headline_map, <<this_file, h.range>>)
        IN /\ closed >= 0
           /\ Len(finished_outputs') = Len(finished_outputs) + closed
           /\ \A j \in DOMAIN finished_outputs : finished_outputs'[j] = finished_outputs[j]
           /\ \A k \in 1..closed :
                finished_outputs'[Len(finished_outputs) + k] = output_stack[Len(output_stack) - k + 1]
           /\ \A i \in 1..(n - 1) : output_stack'[i] = output_stack[i]
           /\ n > 0 =>
                /\ output_stack'[n][1] = output_stack[n][1]
                /\ output_stack'[n][2] = output_stack[n][2] \o
                        (IF f # <<>> THEN EmbedReference(f[1]) ELSE NOID_MSG(h.title))
                /\ log' = IF f # <<>> THEN log
                          ELSE Append(log, Warning("exported headline with no id", h.title, this_file))
           /\ n = 0 => log' = log]_vars

\* the File context holds the embed of a first section and, after it, the
\* placeholder of a second one that closed the first and has no filename
C23_Witness ==
    /\ Len(output_stack) = 2
    /\ finished_outputs # <<>>
    /\ output_stack[1][1].kind = "File"
    /\ \E l1, l2 \in 1..MaxLevel :
        output_stack[1][2] = EmbedReference(slugify(LevelTitle(l1)) \o DOT_ORG) \o NOID_MSG(LevelTitle(l2))

\* the front matter of a section anchored at h: the delimiter line, "title: "
\* and the anchor's title, "ID: u1" when the anchor carries that identifier, the
\* delimiter line and an empty line
AnchorFrontMatter(h) ==
    <<"-", "-", "-", "\n">> \o <<"t", "i", "t", "l", "e", ":", " ">> \o h.title \o <<"\n">>
        \o (IF h.properties = <<IdProperty(U1)>> THEN <<"I", "D", ":", " ">> \o U1 \o <<"\n">> ELSE <<>>)
        \o <<"-", "-", "-", "\n", "\n">>

SectionContexts == {i \in DOMAIN AllContexts : AllContexts[i][1].kind = "Headline"}

\* C25 as stated: the record of every section holds the heading line of depth 1
\* with the anchor's title.
C25_AnchorHeading ==
    pc = "finished" =>
        \A i \in SectionContexts :
            Occurrences(AllContexts[i][2], <<"#", " ">> \o AllContexts[i][1].h.title) >= 1

\* C25: the anchor headline of a Section context is not rendered as a heading.
\* Its title is written once, as the "title:" entry of the front matter the
\* context's buffer begins with, and occurs nowhere else in the buffer, whether
\* the context is open or finished.
C25_AnchorInFrontMatterOnly ==
    \A i \in SectionContexts :
        LET h == AllContexts[i][1].h
            buf == AllContexts[i][2]
        IN /\ IsPrefix(AnchorFrontMatter(h), buf)
           /\ Occurrences(buf, h.title) = 1

\* a finished section record that holds, after its front matter, a text and the
\* heading of a sub-headline
C25_Witness ==
    /\ pc = "finished"
    /\ \E i \in SectionContexts :
        LET h == AllContexts[i][1].h
            buf == AllContexts[i][2]
        IN /\ h.level = 1
           /\ Len(buf) > Len(AnchorFrontMatter(h))
           /\ Occurrences(buf, <<"x", Digit(h.range)>>) = 1
           /\ Occurrences(buf, <<"#", " ">> \o LevelTitle(2)) = 1

\* one "key: value" line per entry of fm
RECURSIVE KeyValueLines(_)
KeyValueLines(fm) ==
    IF fm = <<>> THEN <<>>
    ELSE fm[1][1] \o <<":", " ">> \o fm[1][2] \o <<"\n">> \o KeyValueLines(Tail(fm))

\* C26: after finish(), a File record that is the last of the finished outputs
\* begins with the opening delimiter line, one "key: value" line per collected
\* file-level entry in the order of collection, and the closing delimiter line,
\* and holds the opening delimiter line at no other place than its start when the
\* document has no export-tagged headline.
C26_FileFrontMatterLines ==
    (pc = "finished" /\ finished_outputs # <<>> /\ Last(finished_outputs)[1].kind = "File") =>
        LET buf == Last(finished_outputs)[2] IN
        /\ IsPrefix(<<"-", "-", "-", "\n">> \o KeyValueLines(file_front_matter) \o <<"-", "-", "-", "\n">>, buf)
        /\ Marked = {} =>
            Occurrences(buf, <<"-", "-", "-", "\n">>) = 2

\* ------------------------------------------------------------------- SpecId
\* One IdTraversal over one document (main.rs lines 80-81), event by event.
\* ":ID: u1", ":ID: u2", ":ID: zz" (no uuid) and ":CATEGORY: x"
IdDrawers ==
    {<<IdProperty(U1)>>, <<IdProperty(U2)>>, <<ID_PROP \o <<" ", "z", "z">>>>,
     <<<<":", "C", "A", "T", "E", "G", "O", "R", "Y", ":", " ", "x">>>>}

\* the events IdTraversal::event reads: property drawers, and headlines with or
\* without a drawer of their own (the text range is filled in on delivery)
IdEvents ==
    {PD(ps) : ps \in IdDrawers}
        \cup {HL(1, FALSE, T_SUB, ps, 0) : ps \in IdDrawers \cup {<<>>}}

IdDocuments == [1..MaxEvents -> IdEvents]

InitId ==
    /\ this_file = A_ORG /\ node_map = <<>> /\ headline_map = <<>> /\ file_front_matter = <<>>
    /\ entered_headline = FALSE /\ output_stack = <<>> /\ finished_outputs = <<>>
    /\ inside_blockquote = FALSE /\ file_markers = 0 /\ log = <<>>
    /\ pc = "indexing"
    /\ outline = <<>>
    /\ nevents = 0
    /\ input \in IdDocuments
    /\ traversal = IdTraversalDefault
    /\ MainIdle
    /\ CalIdle

\* the traverser has an event left to deliver; a failed expect() ends the process
IdCanStep == pc = "indexing" /\ nevents < Len(input) /\ ~traversal.panicked

IdPropertyDrawerEvent ==
    /\ IdCanStep
    /\ input[nevents + 1].type = "PropertyDrawer"
    /\ traversal' = IdEvent(traversal, input[nevents + 1])
    /\ nevents' = nevents + 1
    /\ UNCHANGED <<this_file, node_map, headline_map, file_front_matter, entered_headline,
                   output_stack, finished_outputs, inside_blockquote, pc, outline,
                   file_markers, input, mainvars, calvars, log>>

IdHeadlineEvent ==
    /\ IdCanStep
    /\ input[nevents + 1].type = "Headline"
    /\ LET ev == [input[nevents + 1] EXCEPT !.h.range = Len(outline) + 1] IN
        /\ traversal' = IdEvent(traversal, ev)
        /\ outline' = Append(outline, ev.h)
    /\ nevents' = nevents + 1
    /\ UNCHANGED <<this_file, node_map, headline_map, file_front_matter, entered_headline,
                   output_stack, finished_outputs, inside_blockquote, pc,
                   file_markers, input, mainvars, calvars, log>>

NextId ==
    \/ IdPropertyDrawerEvent
    \/ IdHeadlineEvent

SpecId == InitId /\ [][NextId]_vars

\* ------------------------------------------- claims on the identifier index
\* C27: file_uuid changes only in a step that delivers a property drawer before
\* any headline was entered; a property drawer with a uuid delivered before the
\* first headline sets it; a property drawer delivered after a headline, whatever
\* it holds, leaves file_uuid and headline_uuids as they are and does not panic.
C27_FileIdBeforeFirstHeadline ==
    [][nevents' = nevents + 1 =>
        LET ev == input[nevents + 1] IN
        /\ traversal'.file_uuid # traversal.file_uuid =>
                ev.type = "PropertyDrawer" /\ outline = <<>>
        /\ (ev.type = "PropertyDrawer" /\ outline = <<>> /\ IdOf(ev.ps) # Invalid) =>
                traversal'.file_uuid = <<IdOf(ev.ps)>>
        /\ (ev.type = "PropertyDrawer" /\ outline # <<>>) =>
                /\ traversal'.file_uuid = traversal.file_uuid
                /\ traversal'.headline_uuids = traversal.headline_uuids
                /\ ~traversal'.panicked]_vars

\* the document gave the file the identifier u1 in a drawer before its first
\* headline, and after that headline held a drawer with the identifier u2
C27_Witness ==
    /\ pc = "indexing"
    /\ nevents = Len(input)
    /\ traversal.file_uuid = <<U1>>
    /\ \E i, j \in 1..nevents :
        /\ i < j
        /\ input[i].type = "Headline"
        /\ input[j].type = "PropertyDrawer" /\ IdOf(input[j].ps) = U2

\* --------------------------------------------------------------- SpecRender
\* One MarkdownExport traversal over documents built from block-level constructs,
\* delivered event by event as org.traverse does (main.rs line 174).
EN(c) == [type |-> "Enter", c |-> c]

LV(c) == [type |-> "Leave", c |-> c]

RL == [type |-> "Rule"]

\* an image link: link.is_image()
LKI(path) ==
    [type |-> "Link", link |-> [path |-> path, description |-> <<>>, is_image |-> TRUE]]

Paragraph == [kind |-> "Paragraph"]

Section == [kind |-> "Section"]

QuoteBlock == [kind |-> "QuoteBlock"]

CommentBlock == [kind |-> "CommentBlock"]

\* #+begin_src rs
SourceBlock == [kind |-> "SourceBlock", language |-> <<"r", "s">>]

\* "- " at the left margin
ListItem == [kind |-> "ListItem", indent |-> 0, bullet |-> <<"-", " ">>]

\* a paragraph holding one text
Para(text) == <<EN(Paragraph), TX(text), LV(Paragraph)>>

\* "file:p"
FILE_P == FILE_LINK \o <<"p">>

\* a headline deeper than the six levels Markdown has
DeepLevel == MaxLevel + 5

\* a headline, alone or with the section that holds its content (a headline's
\* text range is filled in on delivery)
Headlines(level, export, title) ==
    {<<HL(level, export, title, <<>>, 0)>>,
     <<HL(level, export, title, <<>>, 0), EN(Section)>>}

\* the block-level constructs of the documents, each as the events it is
\* delivered as
RenderBlocks ==
    {Para(<<"a">>),
     <<EN(Paragraph), LKI(FILE_P), LV(Paragraph)>>,
     <<EN(Paragraph), LK(FILE_P, <<>>), LV(Paragraph)>>,
     <<EN(Paragraph), LK(FILE_P, <<"d">>), LV(Paragraph)>>,
     <<EN(QuoteBlock)>> \o Para(<<"a", "\n", "b">>) \o <<LV(QuoteBlock)>>,
     <<EN(QuoteBlock)>> \o Para(<<"a">>) \o Para(<<"b">>) \o <<LV(QuoteBlock)>>,
     <<EN(SourceBlock), TX(<<"c", "\n">>), LV(SourceBlock)>>,
     <<EN(CommentBlock), TX(<<"c">>), LV(CommentBlock)>>,
     <<EN(ListItem)>> \o Para(<<"a">>) \o <<LV(ListItem)>>,
     <<RL>>,
     <<TBL(<<<<<<"1">>, <<"2">>>>>>)>>}
        \cup Headlines(1, FALSE, T_ONE) \cup Headlines(2, FALSE, T_TWO)
        \cup Headlines(DeepLevel, FALSE, T_NOTES) \cup Headlines(2, TRUE, T_SUB)

\* how a document begins: with nothing exported, with the file-scope marker, with
\* an export-tagged headline of level 1, or with both
RenderOpenings ==
    {<<>>, <<KW(FILETAGS, EXPORT_TAGS)>>}
        \cup Headlines(1, TRUE, T_AB)
        \cup {<<KW(FILETAGS, EXPORT_TAGS)>> \o h : h \in Headlines(1, TRUE, T_AB)}

RECURSIVE Flatten(_)
Flatten(blocks) == IF blocks = <<>> THEN <<>> ELSE Head(blocks) \o Flatten(Tail(blocks))

\* orgize's tree: what follows a headline is its section or the next headline
WellFormed(doc) ==
    \A i \in 1..(Len(doc) - 1) :
        doc[i].type = "Headline" => doc[i + 1].type = "Headline" \/ doc[i + 1] = EN(Section)

RenderDocuments ==
    {d \in {o \o Flatten(bs) : o \in RenderOpenings,
                                 bs \in UNION {[1..n -> RenderBlocks] : n \in 0..MaxBlocks}} :
        WellFormed(d)}

InitRender ==
    /\ this_file = A_ORG
    /\ node_map = (U1 :> slugify(LevelTitle(1)))
    /\ headline_map = <<>>
    /\ file_front_matter = <<>>
    /\ entered_headline = FALSE
    /\ output_stack = <<>>
    /\ finished_outputs = <<>>
    /\ inside_blockquote = FALSE
    /\ pc = "traversing"
    /\ outline = <<>>
    /\ nevents = 0
    /\ file_markers = 0
    /\ input \in RenderDocuments
    /\ traversal = IdTraversalDefault
    /\ log = <<>>
    /\ MainIdle
    /\ CalIdle

\* the event the traverser delivers next
NextEvent ==
    LET ev == input[nevents + 1] IN
    IF ev.type = "Headline" THEN [ev EXCEPT !.h.range = Len(outline) + 1] ELSE ev

\* org.traverse has an event of the given type to deliver next
CanDeliver(type) ==
    /\ pc = "traversing"
    /\ nevents < Len(input)
    /\ NextEvent.type = type

\* the event is handed to MarkdownExport::event
Handle ==
    /\ SetSelf(event(Self, NextEvent))
    /\ nevents' = nevents + 1
    /\ UNCHANGED <<pc, input, traversal, mainvars, calvars>>

DeliverKeyword ==
    /\ CanDeliver("Keyword")
    /\ Handle
    /\ file_markers' = IF IsPrefix(FILETAGS, NextEvent.k.key) /\ FiletagsHasExport(NextEvent.k.value)
                       THEN file_markers + 1 ELSE file_markers
    /\ UNCHANGED outline

DeliverHeadline ==
    /\ CanDeliver("Headline")
    /\ Handle
    /\ outline' = Append(outline, NextEvent.h)
    /\ UNCHANGED file_markers

DeliverEnter ==
    /\ CanDeliver("Enter")
    /\ Handle
    /\ UNCHANGED <<outline, file_markers>>

DeliverLeave ==
    /\ CanDeliver("Leave")
    /\ Handle
    /\ UNCHANGED <<outline, file_markers>>

DeliverText ==
    /\ CanDeliver("Text")
    /\ Handle
    /\ UNCHANGED <<outline, file_markers>>

\* a link element: Enter(Link), the description unless skipped, Leave(Link)
DeliverLink ==
    /\ CanDeliver("Link")
    /\ Handle
    /\ UNCHANGED <<outline, file_markers>>

\* a table element: Enter(OrgTable), which skips its rows
DeliverTable ==
    /\ CanDeliver("Table")
    /\ Handle
    /\ UNCHANGED <<outline, file_markers>>

DeliverRule ==
    /\ CanDeliver("Rule")
    /\ Handle
    /\ UNCHANGED <<outline, file_markers>>

\* main.rs line 177: traversal.finish() once org.traverse has returned
FinishRender ==
    /\ nevents = Len(input)
    /\ Finish

NextRender ==
    \/ DeliverKeyword
    \/ DeliverHeadline
    \/ DeliverEnter
    \/ DeliverLeave
    \/ DeliverText
    \/ DeliverLink
    \/ DeliverTable
    \/ DeliverRule
    \/ FinishRender

SpecRender == InitRender /\ [][NextRender]_vars

\* ------------------------------------------------------ claims on rendering
\* the event delivered by the step from this state
Delivered == input[nevents + 1]

\* the step delivers an event of the given type
Delivers(type) == nevents' = nevents + 1 /\ Delivered.type = type

\* buf, with a newline added when it is not empty and does not end in one
WithNewline(buf) ==
    IF buf = <<>> THEN buf
    ELSE IF buf[Len(buf)] = "\n" THEN buf
    ELSE buf \o <<"\n">>

\* C24: a step that delivers a headline of source level L without export tag
\* while a context anchored at level A (0 for File) stays on top of the stack
\* appends to that context's buffer, after a newline if one was missing, a heading
\* of L - A marks, of 6 marks when L - A exceeds 6, a space and the title.
C24_HeadingDepth ==
    [][(Delivers("Headline") /\ ~HasExportTag(Delivered.h) /\ output_stack' # <<>>) =>
        LET L == Delivered.h.level
            n == Len(output_stack')
            A == IF output_stack'[n][1].kind = "File" THEN 0 ELSE output_stack'[n][1].h.level
            depth == IF L - A > 6 THEN 6 ELSE L - A
        IN /\ L > A
           /\ output_stack'[n][1] = output_stack[n][1]
           /\ output_stack'[n][2] =
                WithNewline(output_stack[n][2]) \o [i \in 1..depth |-> "#"] \o <<" ">> \o Delivered.h.title]_vars

\* a section anchored at level 1 holds the heading of a level-2 headline with one
\* mark and, on the next line, that of a headline of level DeepLevel with six
C24_Witness ==
    /\ pc = "traversing"
    /\ output_stack # <<>>
    /\ Last(output_stack)[1].kind = "Headline"
    /\ Last(output_stack)[1].h.level = 1
    /\ Contains(Last(output_stack)[2],
                <<"\n", "#", " ">> \o T_TWO \o <<"\n", "#", "#", "#", "#", "#", "#", " ">> \o T_NOTES)

\* where the line that holds position p of buf starts
LineStart(buf, p) ==
    LET breaks == {q \in 1..(p - 1) : buf[q] = "\n"} IN
    IF breaks = {} THEN 1 ELSE (CHOOSE q \in breaks : \A r \in breaks : r <= q) + 1

\* C28: whatever a step appends to the buffer while the traversal is inside a
\* block quote lies on lines that begin with the quote prefix "> ": the first
\* line of the quote, each line after a line break inside a text, and each line
\* of a second or later paragraph.
C28_QuoteLinesPrefixed ==
    [][(inside_blockquote /\ nevents' = nevents + 1 /\ output_stack # <<>>
            /\ Len(output_stack') = Len(output_stack)) =>
        LET old == Last(output_stack)[2]
            buf == Last(output_stack')[2]
        IN \A p \in (Len(old) + 1)..Len(buf) :
            buf[p] # "\n" =>
                LET q == LineStart(buf, p) IN
                q + 1 <= Len(buf) /\ buf[q] = ">" /\ buf[q + 1] = " "]_vars

\* the path of a link without its "file:" scheme
WithoutFileScheme(path) ==
    IF Len(path) >= 5 /\ SubSeq(path, 1, 5) = <<"f", "i", "l", "e", ":">>
    THEN SubSeq(path, 6, Len(path)) ELSE path

\* C29: a step that delivers a link that is no identifier link appends to the
\* buffer on top of the stack, with p the path without its "file:" scheme:
\* "![](p)" for an image link, "[p](p)" for a link without description and
\* "[d](p)" for a link with the description d.
C29_FileSchemeStripped ==
    [][(Delivers("Link") /\ output_stack # <<>> /\ ~IsPrefix(ID_LINK, Delivered.link.path)) =>
        LET l == Delivered.link
            p == WithoutFileScheme(l.path)
            target == <<"(">> \o p \o <<")">>
        IN Last(output_stack')[2] = Last(output_stack)[2] \o
                (IF l.is_image THEN <<"!", "[", "]">> \o target
                 ELSE IF l.description = <<>> THEN <<"[">> \o p \o <<"]">> \o target
                 ELSE <<"[">> \o l.description \o <<"]">> \o target)]_vars

\* the step starts a block-level construct: a heading, a section, a source,
\* quote or comment block, a list item, a horizontal rule or a table
StartsBlock ==
    \/ Delivers("Headline") /\ ~HasExportTag(Delivered.h)
    \/ Delivers("Enter") /\ Delivered.c.kind \in {"Section", "SourceBlock", "QuoteBlock",
                                                   "CommentBlock", "ListItem"}
    \/ Delivers("Rule")
    \/ Delivers("Table")

\* what the text of the construct begins with
Opening(ev) ==
    IF ev.type = "Headline" THEN <<"#">>
    ELSE IF ev.type = "Rule" THEN <<"-", "-", "-", "-", "-">>
    ELSE IF ev.type = "Table" THEN <<"s", "k", "i", "p", "p", "e", "d">>
    ELSE IF ev.c.kind = "SourceBlock" THEN <<GRAVE, GRAVE, GRAVE>>
    ELSE IF ev.c.kind = "QuoteBlock" THEN <<">", " ">>
    ELSE IF ev.c.kind = "CommentBlock" THEN <<"<", "!", "-", "-">>
    ELSE IF ev.c.kind = "ListItem" THEN ev.c.bullet
    ELSE <<>>

\* C30: a step that starts a block-level construct in a context whose buffer is
\* not empty leaves that buffer as it was, followed by a newline exactly when it
\* did not end in one, followed by the construct's own text.
C30_BlockStartsOnNewLine ==
    [][(StartsBlock /\ output_stack' # <<>>
            /\ Len(output_stack') <= Len(output_stack)
            /\ output_stack[Len(output_stack')][2] # <<>>) =>
        LET old == output_stack[Len(output_stack')][2]
            buf == Last(output_stack')[2]
            own == SubSeq(buf, Len(WithNewline(old)) + 1, Len(buf))
        IN /\ IsPrefix(WithNewline(old), buf)
           /\ IsPrefix(Opening(Delivered), own)]_vars

\* the step delivers an event that only the rendering match of lines 207-395
\* handles: a text, a container other than keyword, drawer and headline, a link,
\* a table or a rule
Renders ==
    \/ Delivers("Text") \/ Delivers("Enter") \/ Delivers("Leave")
    \/ Delivers("Link") \/ Delivers("Table") \/ Delivers("Rule")

\* C31: a step that delivers a rendering event leaves the stack as deep as it
\* was, every open context but the one on top as it was, the top context's anchor
\* as it was and the finished outputs as they were; with no context open it
\* leaves the stack empty.  A step that renders a headline without export tag
\* changes the buffer of no context but the one left on top: the contexts it
\* closes reach the finished outputs with their buffers as they were.
C31_OnlyTopBufferChanges ==
    [][/\ Renders =>
            /\ Len(output_stack') = Len(output_stack)
            /\ finished_outputs' = finished_outputs
            /\ \A i \in 1..(Len(output_stack) - 1) : output_stack'[i] = output_stack[i]
            /\ output_stack # <<>> =>
                    Last(output_stack')[1] = Last(output_stack)[1]
       /\ (Delivers("Headline") /\ ~HasExportTag(Delivered.h)) =>
            LET n == Len(output_stack') IN
            /\ n <= Len(output_stack)
            /\ \A i \in 1..(n - 1) : output_stack'[i] = output_stack[i]
            /\ \A j \in DOMAIN finished_outputs : finished_outputs'[j] = finished_outputs[j]
            /\ Len(finished_outputs') = Len(finished_outputs) + Len(output_stack) - n
            /\ \A k \in 1..(Len(output_stack) - n) :
                    finished_outputs'[Len(finished_outputs) + k] = output_stack[Len(output_stack) - k + 1]]_vars

\* a paragraph was written into a section while the File context under it still
\* holds nothing but the placeholder of that section
C31_Witness ==
    /\ pc = "traversing"
    /\ Len(output_stack) = 2
    /\ output_stack[1] = <<CtxFile, NOID_MSG(T_AB)>>
    /\ output_stack[2][1].kind = "Headline"
    /\ output_stack[2][2] = AnchorFrontMatter(output_stack[2][1].h) \o <<"a", "\n">>

\* ------------------------------------------------------- cal-sync: org.rs
\* org.rs line 15
DONE_KEYWORDS == {<<"D", "O", "N", "E">>, <<"C", "N", "C", "L">>}

\* Time is counted in minutes from the start of day 0, in the one time zone of
\* self.now: the Zoned value of date.at(h, m, 0, 0)
At(day, h, m) == (day * 24 + h) * 60 + m

\* enum Dateish, org.rs lines 216-219
AllDay(day) == [kind |-> "AllDay", at |-> day]

Precise(zoned) == [kind |-> "Precise", at |-> zoned]

\* org.rs lines 232-245 and 258-272: a date with an optional time <<h, m>>; an
\* hour of 24 or more is the next day's
DateishOf(day, time) ==
    IF time # <<>>
    THEN IF time[1] >= 24
         THEN Precise(At(day + 1, time[1] % 24, time[2]))
         ELSE Precise(At(day, time[1], time[2]))
    ELSE AllDay(day)

\* org.rs lines 279-291
Recurrence(unit, int) == <<"RRULE:FREQ=", unit, ";INTERVAL=", int>>

\* RepeatedDate::from_org, org.rs lines 222-299.  ts is an orgize Timestamp as
\* the code reads it: day and day_end are <<>> when the date does not parse,
\* time and time_end are <<>> or <<h, m>>, repeater is <<>> or <<unit, int>>.
\* The result is <<>> for None.
from_org(ts) ==
    IF ts.day = <<>> \/ ts.day_end = <<>> THEN <<>>
    ELSE <<[start |-> DateishOf(ts.day[1], ts.time),
            end |-> IF ts.is_range THEN <<DateishOf(ts.day_end[1], ts.time_end)>> ELSE <<>>,
            repeat |-> IF ts.repeater # <<>>
                       THEN <<Recurrence(ts.repeater[1], ts.repeater[2])>> ELSE <<>>]>>

\* struct Traversal, org.rs lines 68-72; panicked stands for the expect() of
\* line 105 having failed
NewTraversal(now) == [items |-> <<>>, stack |-> <<>>, now |-> now, panicked |-> FALSE]

\* Traversal::event, Enter(Headline): org.rs lines 82-103.  headline is
\* [title, todo_keyword, scheduled, deadline], the last three <<>> for None
AgendaEnterHeadline(t, headline) ==
    LET s == IF headline.scheduled # <<>> THEN from_org(headline.scheduled[1]) ELSE <<>>
        d == IF headline.deadline # <<>> THEN from_org(headline.deadline[1]) ELSE <<>>
    IN [t EXCEPT !.stack = Append(@, [name |-> headline.title, timestamps |-> s \o d])]

\* the closure of retain_mut, org.rs lines 116-129: <<keep, ts>>, ts with the
\* end the closure may have set
Retain(ts, now) ==
    IF ts.start.kind = "AllDay" THEN <<FALSE, ts>>
    ELSE IF ts.end # <<>> /\ ts.end[1].kind = "Precise"
         THEN <<ts.end[1].at > now, ts>>
         ELSE <<ts.start.at > now, [ts EXCEPT !.end = <<Precise(ts.start.at + 60)>>]>>

\* Vec::retain_mut
RECURSIVE RetainAll(_, _)
RetainAll(tss, now) ==
    IF tss = <<>> THEN <<>>
    ELSE LET r == Retain(Head(tss), now) IN
         (IF r[1] THEN <<r[2]>> ELSE <<>>) \o RetainAll(Tail(tss), now)

\* the Leave(Headline) handler without the test of line 131: the item is
\* pushed whatever is left of its timestamps
AgendaLeaveHeadlineAlways(t, headline) ==
    IF t.stack = <<>> THEN [t EXCEPT !.panicked = TRUE]
    ELSE LET l == Last(t.stack)
             t1 == [t EXCEPT !.stack = Front(@)]
         IN IF headline.todo_keyword # <<>> /\ headline.todo_keyword[1] \in DONE_KEYWORDS
            THEN t1
            ELSE [t1 EXCEPT !.items = Append(@, [l EXCEPT !.timestamps = RetainAll(@, t.now)])]

\* Traversal::event, Leave(Headline): org.rs lines 104-134
AgendaLeaveHeadline(t, headline) ==
    IF t.stack = <<>> THEN [t EXCEPT !.panicked = TRUE]
    ELSE LET l == Last(t.stack)
             t1 == [t EXCEPT !.stack = Front(@)]
             kept == RetainAll(l.timestamps, t.now)
         IN IF headline.todo_keyword # <<>> /\ headline.todo_keyword[1] \in DONE_KEYWORDS
            THEN t1
            ELSE IF kept # <<>>
                 THEN [t1 EXCEPT !.items = Append(@, [l EXCEPT !.timestamps = kept])]
                 ELSE t1

\* Traversal::event, Timestamp: org.rs lines 135-149
AgendaTimestamp(t, ts) ==
    IF t.stack = <<>> THEN t
    ELSE IF ts.is_inactive THEN t
    ELSE IF from_org(ts) = <<>> THEN t
    ELSE [t EXCEPT !.stack[Len(t.stack)].timestamps = Append(@, from_org(ts)[1])]

\* Traversal::event
AgendaEvent(t, ev) ==
    IF ev.type = "Enter" THEN AgendaEnterHeadline(t, ev.headline)
    ELSE IF ev.type = "Leave" THEN AgendaLeaveHeadline(t, ev.headline)
    ELSE IF ev.type = "Timestamp" THEN AgendaTimestamp(t, ev.ts)
    ELSE t

\* -------------------------------------------------------------- SpecAgenda
\* One Traversal over one document (org.rs lines 44-55), event by event, then
\* finish() and the assertion of get_valid_items.
\* Zoned::now(): noon of day 1
NOW == At(1, 12, 0)

\* an orgize Timestamp on one day
OrgTimestamp(inactive, day, time) ==
    [is_inactive |-> inactive, day |-> day, time |-> time, is_range |-> FALSE,
     day_end |-> day, time_end |-> <<>>, repeater |-> <<>>]

\* <day0 09:00>, <day2 09:00>, <day2 24:30>, <day2>, [day2 09:00], a weekly
\* <day0 09:00>--<day2 10:00>, and a timestamp whose date does not parse
AgendaTimestamps ==
    {OrgTimestamp(FALSE, <<0>>, <<9, 0>>),
     OrgTimestamp(FALSE, <<2>>, <<9, 0>>),
     OrgTimestamp(FALSE, <<2>>, <<24, 30>>),
     OrgTimestamp(FALSE, <<2>>, <<>>),
     OrgTimestamp(TRUE, <<2>>, <<9, 0>>),
     [OrgTimestamp(FALSE, <<0>>, <<9, 0>>) EXCEPT !.is_range = TRUE, !.day_end = <<2>>,
                                                 !.time_end = <<10, 0>>,
                                                 !.repeater = <<"WEEKLY", 1>>],
     OrgTimestamp(FALSE, <<>>, <<9, 0>>)}

\* the headlines of the documents: with or without a closing keyword, with or
\* without a SCHEDULED planning line
AgendaHeadlines ==
    {[title |-> T_SUB, todo_keyword |-> kw, scheduled |-> s, deadline |-> <<>>] :
        kw \in {<<>>, <<<<"D", "O", "N", "E">>>>},
        s \in {<<>>, <<OrgTimestamp(FALSE, <<2>>, <<9, 0>>)>>}}

\* the events Traversal::event reads
AgendaEvents ==
    {[type |-> "Enter", headline |-> h] : h \in {g \in AgendaHeadlines : g.todo_keyword = <<>>}}
        \cup {[type |-> "Leave", headline |-> h] : h \in {g \in AgendaHeadlines : g.scheduled = <<>>}}
        \cup {[type |-> "Timestamp", ts |-> ts] : ts \in AgendaTimestamps}

AgendaDocuments == [1..MaxEvents -> AgendaEvents]

InitAgenda ==
    /\ this_file = <<>> /\ node_map = <<>> /\ headline_map = <<>> /\ file_front_matter = <<>>
    /\ entered_headline = FALSE /\ output_stack = <<>> /\ finished_outputs = <<>>
    /\ inside_blockquote = FALSE /\ file_markers = 0 /\ log = <<>>
    /\ outline = <<>> /\ traversal = IdTraversalDefault
    /\ pc = "agenda"
    /\ nevents = 0
    /\ input \in AgendaDocuments
    /\ agenda = NewTraversal(NOW)
    /\ gcal = <<>>
    /\ MainIdle

\* the traverser has an event left to deliver; a failed expect() ends the process
AgendaCanStep(type) ==
    /\ pc = "agenda" /\ nevents < Len(input) /\ ~agenda.panicked
    /\ input[nevents + 1].type = type

AgendaEnterHeadlineEvent ==
    /\ AgendaCanStep("Enter")
    /\ agenda' = AgendaEvent(agenda, input[nevents + 1])
    /\ nevents' = nevents + 1
    /\ UNCHANGED <<this_file, node_map, headline_map, file_front_matter, entered_headline,
                   output_stack, finished_outputs, inside_blockquote, pc, outline,
                   file_markers, input, traversal, mainvars, gcal, log>>

AgendaLeaveHeadlineEvent ==
    /\ AgendaCanStep("Leave")
    /\ agenda' = AgendaEvent(agenda, input[nevents + 1])
    /\ nevents' = nevents + 1
    /\ UNCHANGED <<this_file, node_map, headline_map, file_front_matter, entered_headline,
                   output_stack, finished_outputs, inside_blockquote, pc, outline,
                   file_markers, input, traversal, mainvars, gcal, log>>

AgendaTimestampEvent ==
    /\ AgendaCanStep("Timestamp")
    /\ agenda' = AgendaEvent(agenda, input[nevents + 1])
    /\ nevents' = nevents + 1
    /\ UNCHANGED <<this_file, node_map, headline_map, file_front_matter, entered_headline,
                   output_stack, finished_outputs, inside_blockquote, pc, outline,
                   file_markers, input, traversal, mainvars, gcal, log>>

\* Traversal::finish and get_valid_items, org.rs lines 56-63 and 156-158: the
\* items are returned when every one of them passes the assertion
AgendaFinish ==
    /\ pc = "agenda" /\ nevents = Len(input) /\ ~agenda.panicked
    /\ pc' = IF \A i \in 1..Len(agenda.items) : agenda.items[i].timestamps # <<>>
             THEN "returned" ELSE "assert failed"
    /\ UNCHANGED <<this_file, node_map, headline_map, file_front_matter, entered_headline,
                   output_stack, finished_outputs, inside_blockquote, outline, nevents,
                   file_markers, input, traversal, mainvars, calvars, log>>

NextAgenda ==
    \/ AgendaEnterHeadlineEvent
    \/ AgendaLeaveHeadlineEvent
    \/ AgendaTimestampEvent
    \/ AgendaFinish

SpecAgenda == InitAgenda /\ [][NextAgenda]_vars

\* ------------------------------------------- claims on the agenda traversal
\* the instants a kept timestamp covers begin at its start
StartsAfterNow(ts) == ts.start.kind = "Precise" /\ ts.start.at > agenda.now

\* C34: no agenda item the traversal returns carries a timestamp that lies
\* after the current time.
C34_NoTimestampAfterNow ==
    pc = "returned" =>
        \A i \in 1..Len(agenda.items) :
            \A j \in 1..Len(agenda.items[i].timestamps) :
                ~StartsAfterNow(agenda.items[i].timestamps[j])

\* the headlines left so far that were not closed by a DONE keyword
LeftOpen ==
    {i \in 1..nevents : input[i].type = "Leave" /\ input[i].headline.todo_keyword = <<>>}

\* C35: every item the traversal holds or returns has a timestamp, whatever the
\* sequence of events: the assertion of get_valid_items does not fail.
C35_ItemsHaveTimestamps ==
    /\ pc # "assert failed"
    /\ agenda # <<>> =>
        \A i \in 1..Len(agenda.items) : agenda.items[i].timestamps # <<>>

\* a document was read to its end and returned an item, and another headline of
\* it was left with no timestamp to keep and made no item
C35_Witness ==
    /\ pc = "returned"
    /\ agenda.items # <<>>
    /\ Len(agenda.items) < Cardinality(LeftOpen)

\* ------------------------------------------------------ cal-sync: gcal.rs
\* gcal.rs line 42
GENERATED_DESC == "cal_sync.py marker description"

\* the calendars of the account, by summary
Calendars == {"org", "home"}

\* the descriptions of the events found in the calendars: the marker, none, the
\* marker followed by more text, and a text of the user's
Descriptions == {GENERATED_DESC, "", "cal_sync.py marker description (old)", "dentist"}

\* an event as the calendar service stores it
StoredEvent(cal, id, summary, description) ==
    [cal |-> cal, id |-> id, summary |-> summary, description |-> description]

\* a filter that lets every event of the calendar through
GeneratedOrNot(ev) == ev.description \in Descriptions

\* the filter of gcal.rs line 77
Generated(ev) == ev.description = GENERATED_DESC

\* gcal.rs lines 106-113: one insertion per timestamp of every item, the item's
\* name beside it
RECURSIVE NewEvents(_)
NewEvents(items) ==
    IF items = <<>> THEN <<>>
    ELSE [j \in 1..Len(Head(items).timestamps) |->
             [name |-> Head(items).name, ts |-> Head(items).timestamps[j]]]
         \o NewEvents(Tail(items))

\* gcal.rs lines 121-129: the event an insertion sends
InsertedEvent(cal, id, new_ev) ==
    StoredEvent(cal, id, <<"T", "S", ":", " ">> \o new_ev.name, GENERATED_DESC)

\* a join that does not wait for its futures
JoinedEarly(requests) == \A k \in DOMAIN requests : requests[k] \in {"pending", "ok", "failed"}

\* join_all has an output when every one of its futures has one
Joined(requests) == \A k \in DOMAIN requests : requests[k] # "pending"

\* the first Err among the outputs, taken by the ? of lines 99 and 143
AnyFailed(requests) == \E k \in DOMAIN requests : requests[k] = "failed"

\* the number of requests the loops of lines 98-101 and 142-146 count
Succeeded(requests) == Cardinality({k \in DOMAIN requests : requests[k] = "ok"})

\* ---------------------------------------------------------------- SpecSync
\* One call of sync() (main.rs line 70) against a calendar service whose
\* requests complete one at a time, each with success or failure.
\* the items the traversal returns for a headline with a SCHEDULED line, and
\* with a timestamp in its text when second is set
ItemsOf(second) ==
    LET entered == AgendaEvent(NewTraversal(NOW),
                       [type |-> "Enter",
                        headline |-> [title |-> T_SUB, todo_keyword |-> <<>>, deadline |-> <<>>,
                                      scheduled |-> <<OrgTimestamp(FALSE, <<2>>, <<9, 0>>)>>]])
        read == IF second
                THEN AgendaEvent(entered, [type |-> "Timestamp",
                                           ts |-> OrgTimestamp(FALSE, <<2>>, <<24, 30>>)])
                ELSE entered
    IN AgendaEvent(read, [type |-> "Leave",
                          headline |-> [title |-> T_SUB, todo_keyword |-> <<>>,
                                        deadline |-> <<>>, scheduled |-> <<>>]]).items

\* the items handed to sync: none, one with one timestamp, one with two
SyncItems == {<<>>, ItemsOf(FALSE), ItemsOf(TRUE)}

\* the service before the call: the calendar "home" holds one event that carries
\* the marker, the calendar "org" up to MaxRemote events of any description
Remote ==
    {{StoredEvent("home", 0, T_ONE, GENERATED_DESC)}
        \cup {StoredEvent("org", id, T_TWO, d[id]) : id \in 1..n} :
            n \in 0..MaxRemote, d \in [1..MaxRemote -> Descriptions]}

InitSync ==
    /\ MdIdle
    /\ MainIdle
    /\ log = <<>>
    /\ agenda = <<>>
    /\ \E remote \in Remote, events \in SyncItems, calendar_summary \in {"org", "work"} :
        gcal = [service |-> remote, events |-> events, calendar_summary |-> calendar_summary,
                pc |-> "calendars", cal |-> <<>>, dels |-> <<>>, adds |-> <<>>,
                deleted_evs |-> 0, inserted_evs |-> 0, printed |-> <<>>]

\* gcal.rs lines 45-52: the list of calendars fails, or holds no calendar of the
\* summary asked for, or holds it
SyncFindCalendar ==
    /\ gcal # <<>> /\ gcal.pc = "calendars"
    /\ \/ gcal' = [gcal EXCEPT !.pc = "error"]
       \/ /\ gcal.calendar_summary \notin Calendars
          /\ gcal' = [gcal EXCEPT !.pc = "error"]
       \/ /\ gcal.calendar_summary \in Calendars
          /\ gcal' = [gcal EXCEPT !.pc = "events", !.cal = <<gcal.calendar_summary>>]
    /\ UNCHANGED <<mdvars, mainvars, agenda, log>>

\* gcal.rs lines 55-92: the list of the calendar's events fails, or one delete
\* request is made for each event that passes the filter
SyncListEvents ==
    /\ gcal # <<>> /\ gcal.pc = "events"
    /\ \/ gcal' = [gcal EXCEPT !.pc = "error"]
       \/ LET listed == {ev \in gcal.service : ev.cal = gcal.cal[1] /\ Generated(ev)} IN
          gcal' = [gcal EXCEPT !.pc = "deleting",
                               !.dels = [id \in {ev.id : ev \in listed} |-> "pending"]]
    /\ UNCHANGED <<mdvars, mainvars, agenda, log>>

\* gcal.rs lines 87-90: a delete request completes; the service removes the
\* event, or the request fails and the event stays
SyncDeleteCompletes ==
    /\ gcal # <<>> /\ gcal.pc = "deleting"
    /\ \E id \in DOMAIN gcal.dels :
        /\ gcal.dels[id] = "pending"
        /\ \/ gcal' = [gcal EXCEPT !.dels[id] = "ok",
                                   !.service = {ev \in @ : ~(ev.cal = gcal.cal[1] /\ ev.id = id)}]
           \/ gcal' = [gcal EXCEPT !.dels[id] = "failed"]
    /\ UNCHANGED <<mdvars, mainvars, agenda, log>>

\* gcal.rs lines 94-137: the joined deletes are counted, the first failure
\* returns; then one insert request is made for each timestamp
SyncAwaitDeletes ==
    /\ gcal # <<>> /\ gcal.pc = "deleting"
    /\ Joined(gcal.dels)
    /\ IF AnyFailed(gcal.dels)
       THEN gcal' = [gcal EXCEPT !.pc = "error"]
       ELSE gcal' = [gcal EXCEPT !.pc = "inserting",
                                 !.deleted_evs = Succeeded(gcal.dels),
                                 !.adds = [k \in 1..Len(NewEvents(gcal.events)) |-> "pending"]]
    /\ UNCHANGED <<mdvars, mainvars, agenda, log>>

\* gcal.rs lines 131-134: an insert request completes; the service stores the
\* event under a new id, or the request fails
SyncInsertCompletes ==
    /\ gcal # <<>> /\ gcal.pc = "inserting"
    /\ \E k \in DOMAIN gcal.adds :
        /\ gcal.adds[k] = "pending"
        /\ \/ gcal' = [gcal EXCEPT !.adds[k] = "ok",
                                   !.service = @ \cup {InsertedEvent(gcal.cal[1], MaxRemote + k,
                                                                     NewEvents(gcal.events)[k])}]
           \/ gcal' = [gcal EXCEPT !.adds[k] = "failed"]
    /\ UNCHANGED <<mdvars, mainvars, agenda, log>>

\* gcal.rs lines 138-151: the joined inserts are counted, the first failure
\* returns; then the two counts are printed
SyncAwaitInserts ==
    /\ gcal # <<>> /\ gcal.pc = "inserting"
    /\ Joined(gcal.adds)
    /\ IF AnyFailed(gcal.adds)
       THEN gcal' = [gcal EXCEPT !.pc = "error"]
       ELSE gcal' = [gcal EXCEPT !.pc = "ok",
                                 !.inserted_evs = Succeeded(gcal.adds),
                                 !.printed = <<"-", gcal.deleted_evs, " +", Succeeded(gcal.adds)>>]
    /\ UNCHANGED <<mdvars, mainvars, agenda, log>>

NextSync ==
    \/ SyncFindCalendar
    \/ SyncListEvents
    \/ SyncDeleteCompletes
    \/ SyncAwaitDeletes
    \/ SyncInsertCompletes
    \/ SyncAwaitInserts

SpecSync == InitSync /\ [][NextSync]_vars

\* --------------------------------------------- claims on the calendar sync
\* the events of the calendar sync() was asked to fill
OfTarget(service) == {ev \in service : ev.cal = gcal.calendar_summary}

\* C32: a step of sync removes from the service only events that carry the
\* marker description, and every event of the target calendar with another
\* description is in the service after the step.
C32_OnlyGeneratedDeleted ==
    [][/\ \A ev \in gcal.service \ gcal'.service : ev.description = GENERATED_DESC
       /\ \A ev \in OfTarget(gcal.service) :
            ev.description # GENERATED_DESC => ev \in gcal'.service]_vars

\* sync returned Ok after deleting an event, and the target calendar still holds
\* an event whose description begins with the marker without being it
C32_Witness ==
    /\ gcal # <<>>
    /\ gcal.pc = "ok"
    /\ gcal.deleted_evs > 0
    /\ \E ev \in OfTarget(gcal.service) :
        ev.description = "cal_sync.py marker description (old)"

\* an insert request was made
InsertIssued == gcal.adds # <<>> \/ gcal.pc \in {"inserting", "ok"}

\* C33: an insert request is made only when every delete request has completed
\* with success; once a delete request failed no insert request is made, nothing
\* is inserted, and sync, when it returns, returns the error.
C33_InsertsAfterDeletes ==
    gcal # <<>> =>
        /\ InsertIssued => \A id \in DOMAIN gcal.dels : gcal.dels[id] = "ok"
        /\ AnyFailed(gcal.dels) =>
            /\ ~InsertIssued
            /\ gcal.pc \in {"deleting", "error"}
            /\ \A ev \in gcal.service : ev.id <= MaxRemote

\* sync returned the error of a failed delete request after another delete
\* request succeeded, with timestamps to insert and none inserted
C33_Witness ==
    /\ gcal # <<>>
    /\ gcal.pc = "error"
    /\ AnyFailed(gcal.dels)
    /\ Succeeded(gcal.dels) > 0
    /\ gcal.events # <<>>
    /\ gcal.adds = <<>>

====
